CONSTANTS
  nobody = nobody
  EnableSSL = TRUE
  Conn = {c1, c2}
SPECIFICATION LiveSpec
INVARIANTS
  ConnsTracked
  NoIdleConnLeftOpen
  NoLostWakeup
  DrainCompletes
  NoServeAfterStopListening
  ErrChanNeverFull
PROPERTIES
  
  ShutdownCompletes
