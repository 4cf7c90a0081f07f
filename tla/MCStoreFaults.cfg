CONSTANTS
 a = a
 b = b
 c = c
 d = d
 l1 = l1
 l2 = l2
 NoFile = NoFile
 Unreadable = Unreadable
 NoCred = NoCred
 Creds <- Credentials2
 Rejectable <- OneGeneration
 Labels = {l1}
 HistoryLimit = 1
 Backup <- OldBackup
 Faults <- AllFaults
SPECIFICATION Spec
INVARIANT TypeOK
INVARIANT NoGenerationLost
INVARIANT RuntimeBound
PROPERTY ReadYourWrites
