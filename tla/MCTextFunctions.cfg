SPECIFICATION Spec
CONSTANTS
  LongBits = 8
  TextChars <- MCTextChars
  TextSize = 4
  StringTexts <- MCStringTexts
  TemplateChars <- MCTemplateChars
  TemplateSize = 5
  NumberChars <- MCNumberChars
  NumberSize = 4
  IntegerTypes <- MCIntegerTypes
  Years <- MCYears
  Days <- MCDays
  Hours <- MCHours
  Minutes <- MCMinutes
  TinyValues <- MCTinyValues
  FieldNames <- MCFieldNames
  SortTexts <- MCSortTexts
  KeySize = 2
  CmpTypes <- MCCmpTypes
  CmpValues <- MCCmpValues
  AddressTexts <- MCAddressTexts
  Arguments <- MCArguments
  MaxPort = 99
  Services <- MCServices
INVARIANTS
  ReadsBack
  FormsAgree
  ConversionExact
  OrdersAgree
  ListsSelect
