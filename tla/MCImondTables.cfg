SPECIFICATION Spec
CONSTANTS
    Files <- MCFiles
    Running <- MCRunning
    Years <- MCYears
    Hours <- MCHours
INVARIANTS RouteFollowsTariff TimetableShowsRoute
CHECK_DEADLOCK FALSE
