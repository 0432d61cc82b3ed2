SPECIFICATION NetSpec
CONSTANTS MAX_SOCKETS = 2
          SOCKET_RECV_QUEUE_SIZE = 2
          Port = {0, 7, 9}
          Packet <- MCPacket
          NoPacket = NoPacket
          ARP_CACHE_SIZE = 2
          Ip <- MCIp
          Mac <- MCMac
          our_ip <- MCOurIp
          our_mac = 0
          Traffic <- MCTraffic
          ip_id_counter = {0, 65535}
          SOCKET_MAX_PACKET_SIZE = 1500
          BUF_SIZE = 1024
          ECHO_PORT = 7
          Server = {1, 2}
INVARIANTS SocketsNotShared FramesSentAreRight
PROPERTIES ImplementsNeighbours ImplementsEcho EchoesFlow
