SPECIFICATION WorkerSpec
INVARIANTS
  AtMostOnePostLeaves
  PreSubmitFailureIsFree
  FirstSubmitOfferIsSafe
PROPERTY DurableIdIsKept
