\* Two writers, a reader and a consolidation; one experience is there and two
\* equivalent ones are reported; one death.
SPECIFICATION Spec
CONSTANTS
  w1 = w1
  w2 = w2
  r1 = r1
  c1 = c1
  k1 = k1
  k2 = k2
  k3 = k3
  kindA = kindA
  Writer = {w1, w2}
  Reader = {r1}
  Tidier = {c1}
  Key = {k1, k2, k3}
  Kind = {kindA}
  KindOf <- OneKind
  Unknown = Unknown
  NoFile = NoFile
  Torn = Torn
  MaxFiles = 3
  MaxWrites = 2
  Known = {k3}
  MaxDeaths = 1
INVARIANTS OneExperiencePerKey LearnedKept OnlyTidyingRaises
PROPERTIES LoneCallIndexes
SYMMETRY Interchangeable
CHECK_DEADLOCK FALSE
