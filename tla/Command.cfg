SPECIFICATION Spec
CONSTANTS ArgumentSize = 3
          Records = 4
          BufferSize = 8
          Lines <- MCLines
          Garbage <- MCGarbage
          Pid = {0, 1, 2, 10}
INVARIANT CommandIsLine
PROPERTY ProgramsGetTheLine
