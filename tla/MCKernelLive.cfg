SPECIFICATION FairSpec
CONSTANTS
  MaxTask = 4
  kMaxLevel = 2
  Credit = 1
PROPERTIES
  NoStarvation
  MailIsReceived
