SPECIFICATION Spec
CONSTANTS
  Tx = {t1}
  Instances = {i1}
  BatchSize = 1
  Workers = 1
  PublishAttempts = 2
  Speakable = {t1}
  MaxFaults = 0
INVARIANT OneAnnouncementPerPayment
CHECK_DEADLOCK FALSE
