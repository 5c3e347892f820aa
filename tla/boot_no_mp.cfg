SPECIFICATION Spec
CONSTANTS
  CpuCount = 4
  BSPIndex = 0
  HasMP = FALSE
  BlocksPerPage = 5
  NameBlocks = {1, 6}
  TableBlocks = {0, 1}
  Failing = {"init_virt_early", "init_phys", "init_tss", "init_virt", "init_phys_mappings",
             "debug_load_symbols", "init_acpi_tables", "init_lapic", "init_scheduler", "init_pcpu", "sched"}
PROPERTY BootCompletes
CHECK_DEADLOCK FALSE
