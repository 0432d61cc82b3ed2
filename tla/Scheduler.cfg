SPECIFICATION Spec
CONSTANTS Task = {t1, t2, t3, t4}
          NoTask = NoTask
PROPERTY ImplementsRunQueue
