SPECIFICATION Spec
CONSTANTS
  Ticks = 2
  MinutesPerHour = 2
  HoursPerDay = 3
  DaysPerMonth = 3
  Months = 2
  Horizon = 30
  Date <- MCDate
  Zones <- MCZones
  Schedules <- MCSchedules
  MaxClock = 100
  MaxSettings = 1
INVARIANTS
  TypeOK
  

  
CHECK_DEADLOCK FALSE
