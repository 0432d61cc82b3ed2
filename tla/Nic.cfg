SPECIFICATION Spec
CONSTANTS NUM_TX_DESC = 2  Wrap = 4  Buf = {1, 2, 3}
          RX_BUF_LEN = 20  U16 = 80  Frame <- MCFrames
          MAX_NETDEVS = 2
          max_interrupt_work = 1
          Machines <- MCMachines
INVARIANTS CardsServed FramesIntact NothingForgotten
PROPERTIES  ImplementsTxRing FramesMoveOn
CHECK_DEADLOCK FALSE
