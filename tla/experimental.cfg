SPECIFICATION ExperimentalSpec
CONSTANTS
  Nil = Nil
  Subjects = {"text", "file"}
  Texts <- MCTexts
  MaxFileSize = 12
  MaxWord = 100
  Files <- MCFiles
  MaxPathBytes = 6
  MaxPathComponents = 3
INVARIANTS
  
  CursorsStayInTree
  
  
CHECK_DEADLOCK FALSE
