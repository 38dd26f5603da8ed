SPECIFICATION FairRemindersSpec
PROPERTY
  EachReminderFires
