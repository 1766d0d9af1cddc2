SPECIFICATION Spec
CONSTANTS
  stm = stm
  nrf = nrf
  host = host
  up = up
  down = down
  back = back
  NoNet = none
  Usart = {stm}
  Uarte = {nrf}
  Polled = {host}
  Net = {up, down, back}
  TxNet <- MCTxNet
  RxNet <- MCRxNet
  ByteTime <- MCByteTime
  Byte = {x, y}
  NoByte = nobyte
  Buffer = {b1, b2}
  NoBuffer = nobuffer
  MaxCnt = 2
  Event = {"ENDRX", "ENDTX"}
  MaxBytes = 2
  MaxSetups = 4
SYMMETRY Symmetry
INVARIANTS
  TypeOK
  NothingForgotten
  DmaFaithful
PROPERTIES
  ImplementsByteLine
CHECK_DEADLOCK FALSE
