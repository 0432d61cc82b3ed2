SPECIFICATION FairSpec
CONSTANTS RingSize = 2
          VGA_WIDTH = 3
          VGA_HEIGHT = 2
          Word = 16
          MaxLine = 4
          MaxInputs = 6
INVARIANTS LineIsWhatWasTyped EchoShowsLine
PROPERTY KeysAreRead
