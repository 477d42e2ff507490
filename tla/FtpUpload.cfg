\* One FTP connection with the promise recv_file's comment makes of an upload.
SPECIFICATION FtpSpec
CONSTANTS
  MaxWire = 2
  MaxItems = 2
  MaxAttempts = 1
PROPERTY UploadEnds
CHECK_DEADLOCK FALSE
