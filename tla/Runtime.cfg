SPECIFICATION RFairSpec
CONSTANTS Task = {0, 1, 2, 3}
          NoTask = NoTask
          Program = {shell, prog}
          Shell = shell
          NoProgram = NoProgram
          Garbage = Garbage
          Error = Error
          NoReturn = NoReturn
          Command = {prog}
          Events = {{"kill"}, {"fault", "kill"}, {"fork", "nomem"}, {"fork", "fault", "kill", "nomem"}}
INVARIANTS  ShellWaitsForCommand
PROPERTIES PromptReturns EveryTaskGetsTurn
