------------------------------ MODULE Features ------------------------------
(***************************************************************************)
(* What a linked field, message or enum says about itself, by the features *)
(* it inherits (linker/descriptors.go, internal/editions).  A feature set  *)
(* is a function from the features that are set to their values; an        *)
(* element's `chain` is the sequence of feature sets from its own up to    *)
(* the file's.                                                             *)
(***************************************************************************)
EXTENDS Integers, Tree, FiniteSets, Functions

-----------------------------------------------------------------------------
(* Features *)

FeatureNames == {"presence", "enum", "repeated", "utf8", "message", "json"}

\* The edition_defaults of descriptor.proto.
EditionDefaults(edition) ==
  [feature \in FeatureNames |->
     CASE feature = "presence" -> IF edition = "proto3" THEN "IMPLICIT" ELSE "EXPLICIT"
       [] feature = "enum" -> IF edition = "proto2" THEN "CLOSED" ELSE "OPEN"
       [] feature = "repeated" -> IF edition = "proto2" THEN "EXPANDED" ELSE "PACKED"
       [] feature = "utf8" -> IF edition = "proto2" THEN "NONE" ELSE "VERIFY"
       [] feature = "message" -> "LENGTH_PREFIXED"
       [] feature = "json" -> IF edition = "proto2" THEN "LEGACY_BEST_EFFORT" ELSE "ALLOW"]

\* ResolveFeature: the nearest element of the chain that sets the feature.
OverridesOf(chain, feature) == SelectSeq(chain, LAMBDA features : feature \in DOMAIN features)

IsEditions(edition) == edition \notin {"proto2", "proto3"}

\* resolveFeature: proto2 and proto3 files cannot set features.
resolveFeature(edition, chain, feature) ==
  LET set == OverridesOf(chain, feature)
  IN IF ~IsEditions(edition) \/ set = <<>> THEN EditionDefaults(edition)[feature]
     ELSE set[1][feature]

-----------------------------------------------------------------------------
(* Fields: `e` is the edition of the file, `chain` as above *)

\* fd is [name, number, label, type, ref, extendee, oneof, entry, inEntry, packed, ...]: `entry`
\* says that its type is a map entry, `inEntry` that its parent is one.
IsExtension(fd) == fd.extendee # Nil
IsMap(fd) == fd.label = "repeated" /\ ~IsExtension(fd) /\ fd.type = "message" /\ fd.entry
IsList(fd) == fd.label = "repeated" /\ ~(fd.type = "message" /\ fd.entry)

FieldKind(e, chain, fd) ==
  IF /\ fd.type = "message" /\ IsEditions(e) /\ ~IsMap(fd) /\ ~fd.inEntry
     /\ resolveFeature(e, chain, "message") = "DELIMITED"
  THEN "group" ELSE fd.type

Cardinal(e, chain, fd) ==
  IF fd.label = "optional" /\ IsEditions(e) /\ resolveFeature(e, chain, "presence") = "LEGACY_REQUIRED"
  THEN "required" ELSE fd.label

HasPresence(e, chain, fd) ==
  /\ fd.label # "repeated"
  /\ \/ IsExtension(fd)
     \/ FieldKind(e, chain, fd) \in {"message", "group"}
     \/ fd.oneof
     \/ resolveFeature(e, chain, "presence") \in {"EXPLICIT", "LEGACY_REQUIRED"}

CanPack(kind) == kind \notin {"message", "group", "string", "bytes"}

IsClosed(e, chain) == resolveFeature(e, chain, "enum") = "CLOSED"
isJSONCompliant(e, chain) == resolveFeature(e, chain, "json") = "ALLOW"
=============================================================================
