CONSTANTS
  Subjects = {"descriptors", "retention", "resolve", "validate", "options"}
  Protos <- SomeProtos
  Failures = {0, 1, 3, 7}
  SourceOnly = {1, 3}
  NoOptions = NoOptions
  NoLocations = NoLocations
  RetentionFiles <- SomeFiles
  Worlds <- SomeWorlds
  Nil = Nil
  NoRef = NoRef
  AllowedExtendees = {}
  Batches <- SomeBatches
  MaxTag = 3
  OptionFiles <- SomeOptionFiles
  Schema <- SomeSchema
  Extensions <- SomeExtensions
  Enums <- SomeEnums
  MaxInt32 = 7
  MinInt32 <- LeastInt32
  MaxInt64 = 15
  Edition = 2023
SPECIFICATION Spec
INVARIANTS
  DescriptorsAreExact StrippingIsExact LinkingIsSound AcceptedIsValid ValuesAreWhereIndexed
CHECK_DEADLOCK FALSE
