CONSTANTS
  Values = {v0, v1}
  EmptyDocument = v0
  Damaged = {d1, d2}
  Partial = partial
  NoFile = nofile
  EditsWhileOpen = FALSE
SPECIFICATION SSpec
PROPERTIES BackupStaysGood
