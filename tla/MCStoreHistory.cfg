CONSTANTS
 a = a
 b = b
 c = c
 d = d
 l1 = l1
 l2 = l2
 NoFile = NoFile
 Unreadable = Unreadable
 NoCred = NoCred
 Creds <- Credentials3
 Rejectable <- NoGenerations
 Labels = {l1}
 HistoryLimit = 2
 Backup = Unreadable
 Faults <- ExternalOnly
SYMMETRY Generations
SPECIFICATION Spec
INVARIANT HistoryBounded
