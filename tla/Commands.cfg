CONSTANTS
  help = help
  coach = coach
  coaches = coaches
  ci = ci
  invite = invite
  all = all
  inv = inv
  Gap = Gap
  Definitions <- MCDefinitions
  Words = {help, coach, coaches, ci, invite, all, inv, Gap}
  SlashWords = {help, coach, coaches, ci, inv}
  MaxWords = 4
SPECIFICATION Spec
INVARIANTS
  TypeOK
  LookupResolves
  MatchIsMeaning
  MenuReachesCommands
CHECK_DEADLOCK FALSE
