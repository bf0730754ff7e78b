SPECIFICATION FairSpec
CONSTANTS
  Tx = {t1}
  Instances = {i1, i2}
  BatchSize = 1
  Workers = 1
  PublishAttempts = 3
  Speakable = {t1}
  MaxFaults = 2
INVARIANTS OneAnnouncer PayableIsPolled TruthfulStatus SilenceExplained SilentPaymentIsListed
PROPERTIES ImplementsLifecycle EventuallySettled PaidIsSpoken
CHECK_DEADLOCK FALSE
