------------------------------- MODULE LogSample -------------------------------
(***************************************************************************)
(* fbzmq::LogSample (fbzmq/service/logging/LogSample.cpp): a json object   *)
(* with a section for each type of value.  A sample is the function from   *)
(* its sections to functions from keys to values.                          *)
(***************************************************************************)
EXTENDS TLC

INT_KEY == "int"
DOUBLE_KEY == "double"
STRING_KEY == "normal"
STRINGVECTOR_KEY == "normvector"
STRINGTAGSET_KEY == "tagset"
kTimeCol == "time"

(* folly::dynamic::update_missing().                                       *)
update_missing(object, other) ==
  [k \in DOMAIN object \cup DOMAIN other |->
     IF k \in DOMAIN object THEN object[k] ELSE other[k]]

(* The section is inserted if it is missing; the key is overwritten.       *)
add(json, section, key, value) ==
  LET old == IF section \in DOMAIN json THEN json[section] ELSE <<>>
  IN  section :> (key :> value @@ old) @@ json

addInt(json, key, value) == add(json, INT_KEY, key, value)
addDouble(json, key, value) == add(json, DOUBLE_KEY, key, value)
addString(json, key, value) == add(json, STRING_KEY, key, value)
addStringVector(json, key, values) == add(json, STRINGVECTOR_KEY, key, values)
addStringTagset(json, key, tags) == add(json, STRINGTAGSET_KEY, key, tags)

(* The constructor, at a time.                                             *)
newSample(timestamp) == addInt(<<>>, kTimeCol, timestamp)

isInnerValueSet(json, section, key) ==
  section \in DOMAIN json /\ key \in DOMAIN json[section]

(* Throws if the value is not set.                                         *)
getInnerValue(json, section, key) == json[section][key]

(* fromJson() throws if the sample has no timestamp.                       *)
fromJsonThrows(json) == ~isInnerValueSet(json, INT_KEY, kTimeCol)

(* Mutant: update() for update_missing().                                  *)
MutMergeSampleUpdates(json, sample) ==
  [s \in DOMAIN json |-> IF s \in DOMAIN sample
                           THEN update_missing(sample[s], json[s]) ELSE json[s]]

(* Only the sections of this sample are looked up in the other one.        *)
mergeSample(json, sample) ==
  [s \in DOMAIN json |-> IF s \in DOMAIN sample
                           THEN update_missing(json[s], sample[s]) ELSE json[s]]
================================================================================
