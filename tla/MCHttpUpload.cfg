SPECIFICATION HSpec
CONSTANTS
  Byte <- MCByte
  Zero = "NUL"
  InitialSize = 8
  Stack = 8
  MaxChunk = 0
  MaxSize = 128
  Symbol <- MCByte
  Room = 12
  MaxLine = 66
  MaxHeader = 12
  ChunkDigits = 2
  MaxPieces = 2
  Requests <- MCUpload
  Malformed = {}
  Servlets <- MCServlets
  Files <- MCFiles
  JsonOf <- fromString
  NoJson <- Null
  JsonText <- MCJsonText
PROPERTY EveryRequestIsAnswered
CHECK_DEADLOCK FALSE
