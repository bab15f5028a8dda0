SPECIFICATION ScheduledSpec
CONSTANT MaxItems = 4
INVARIANTS NoReadAfterFree DequeuerReadsFilled FrontWasFront
PROPERTIES Implements CallsReturn
