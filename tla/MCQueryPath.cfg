SPECIFICATION MCSpec
CONSTANTS
  Columns <- MCColumns
  Breaks <- MCBreaks
  MaxCTEs = 2
  Hosts <- MCHosts
  Users <- MCUsers
  Passwords <- MCPasswords
  Databases <- MCDatabases
  Ports <- MCPorts
  Decimal <- MCDecimal
  Schemas <- MCSchemas
  DSNs <- MCDSNs
INVARIANTS
  PlainStatementsByTheirTool
  SpacedWritesAreNotRead
  SettingsAsConfigured
CHECK_DEADLOCK FALSE
