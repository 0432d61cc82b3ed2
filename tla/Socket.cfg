SPECIFICATION Spec
CONSTANTS MAX_SOCKETS = 2
          SOCKET_RECV_QUEUE_SIZE = 2
          Port = {0, 7, 9}
          Packet = {d1, d2}
          NoPacket = NoPacket
INVARIANT RingConsistent
PROPERTY ImplementsMailboxes
