\* One directory with an [intrusion] section is enough.
CONSTANTS
  NDirs = 1
  Keys = {"tenant_id"}
  Sections = {"intrusion"}
  EnvKeys = {"tenant_id"}
  UnreadTexts = {{}}
  SectionKeys = {"k1", "k2"}
  MaxSectionFiles = 3
SPECIFICATION ConfigSpec
CHECK_DEADLOCK FALSE
INVARIANT SectionsReachRuntime
