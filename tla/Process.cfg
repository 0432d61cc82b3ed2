SPECIFICATION Spec
CONSTANTS Task = {0, 1, 2}
          NoTask = NoTask
          Program = {shell, prog}
          Shell = shell
          NoProgram = NoProgram
          Garbage = Garbage
          Error = Error
          NoReturn = NoReturn
INVARIANTS TableMatchesList TurnAndFocusLive
PROPERTY OnlyTheseMixContexts
