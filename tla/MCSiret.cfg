\* Every value of up to five characters, and every mistake in one.
CONSTANTS
  Length = 4
  LaPosteSiren <- ShortSiren
  MaxLength = 5
SPECIFICATION Spec
CHECK_DEADLOCK FALSE
INVARIANT OnlySiretsAreValid
PROPERTIES
  OneWrongDigitIsNoticed
  ExchangeIsNoticed
