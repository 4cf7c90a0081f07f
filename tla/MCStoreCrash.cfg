CONSTANTS
 a = a
 b = b
 c = c
 d = d
 l1 = l1
 l2 = l2
 NoFile = NoFile
 Unreadable = Unreadable
 NoCred = NoCred
 Creds <- Credentials4
 Rejectable <- NoGenerations
 Labels = {l1, l2}
 HistoryLimit = 3
 Backup = Unreadable
 Faults <- CrashOnly
SYMMETRY GenerationsAndLabels
SPECIFICATION AccountSpec
PROPERTY SurvivesDamagedFiles
PROPERTY ImplementsRegister
