SPECIFICATION Spec
CONSTANTS
  f1 = f1
  f2 = f2
  NoFile = NoFile
  NewConversation = NewConversation
  File <- MCFile
  Transcript <- Sent
  MaxSize = 2
  MaxUniqueFiles = 1
  MaxEnvelopes = 2
INVARIANTS TypeOK CreditedWasSupplied ExactUnlessClipped
           CompleteMeansWholeLineage NoPriorContextIsTrue
