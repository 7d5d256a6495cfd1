SPECIFICATION FairSpec
CONSTANTS
  TypeIds <- MCTypeIds
  FieldNames <- MCFieldNames
  Programs <- MCPrograms
  Definition <- MCDefinition
  Expansion <- MCExpansion
  VarType <- MCVarType
  Sample <- MCSample
  Tables <- MCTables
  Encoding <- MCEncoding
  Structured <- MCStructured
  Regular <- MCRegular
  WideIntegers = TRUE
  Trees <- MCTrees
  LuaValues <- MCLuaValues
  NoType = NoType
INVARIANTS
  TypeOK
  CachedTypesAreWhole
  SymbolDefIsWhole
  ResolvedIsKnown
  SymbolDefIsCurrent
  DecodedIsSent
  EncodedIsReference
  NoBodyWithoutStructures
PROPERTIES
  CallsReturn
