\* Two plugins with an option, two sequences, both builds.
CONSTANTS
  Plugins = {p1, p2, NoName}
  NoName = NoName
  Options = {o1}
  Values = {v1, NoValue}
  NoValue = NoValue
  Entries = {e1, e2, e3}
  Threads = {s1, s2}
  NoSequence = NoSequence
  MaxDepth = 3
SPECIFICATION HostSpec
INVARIANTS
  FoundStaysFound
  OneSequenceInside
