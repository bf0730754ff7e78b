SPECIFICATION Spec
CONSTANTS
  Presses = 3
  MaxDrops = 1
INVARIANTS OneScreenPerAnnouncement StrangeCodeExplained RepeatsExplained
PROPERTY AnnouncementIsHeard
CHECK_DEADLOCK FALSE
