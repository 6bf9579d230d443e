SPECIFICATION Spec
CONSTANTS
  Ticks = 2
  MinutesPerHour = 2
  HoursPerDay = 3
  DaysPerMonth = 3
  Months = 2
  Horizon = 30
  Date <- MCDate
  Zones <- MCRepeatOnly
  Schedules <- MCDailyOnly
  MaxClock = 100
  MaxSettings = 0
PROPERTY
  DocOneCyclePerLocalTime
CHECK_DEADLOCK FALSE
