CONSTANTS
  nobody = nobody
  EnableSSL = FALSE
  Conn = {c1}
SPECIFICATION Spec
INVARIANT DrainWaitsForLastRequest
