------------------------------- MODULE JsonBox -------------------------------
(***************************************************************************)
(* UObjectDeliveryBoxUsingJson of both ends of a connection: the sender's  *)
(* turns an object and all it refers to into JSON, the receiver's makes    *)
(* objects of it.  Per class the box writes an object with its class       *)
(* ("WriteType") or without ("NoWriteType"); both are set up alike, and    *)
(* the receiver's is told the class of the messages it expects.            *)
(*                                                                         *)
(* The classes are a base class and a class derived from it, with one      *)
(* property for each way the code treats a property.  JSON is a tuple of a *)
(* tag and a content; a key is a property's name and whether the object's  *)
(* class converted it.  A JSON object that stands where a reference may    *)
(* stand is a node, named by the object it was made of and the objects     *)
(* that one lies within; the JSON that refers to it holds the name.  A     *)
(* received object is its class and its fields, with the objects it refers *)
(* to in place.                                                            *)
(***************************************************************************)
EXTENDS Naturals, Sequences, FiniteSets, SequencesExt

CONSTANTS
    Objects,         \* the objects on the sender's side
    Message,         \* the one that is sent
    Null,            \* stands for no object and no class
    Converting,      \* the classes that convert their properties' names
    MaxExact         \* the number, 2^53, up to which a double holds every integer

Classes == {"Base", "Derived"}

ASSUME JsonAssumption ==
    /\ Message \in Objects /\ IsFiniteSet(Objects)
    /\ Null \notin Objects /\ Null \notin Classes
    /\ MaxExact \in Nat \ {0}

(* The properties of a class, the derived class's own ones included.       *)
Properties(class) ==
    {"number", "other", "others"} \union
    IF class = "Derived" THEN {"text", "date", "dates", "part", "marks", "named"} ELSE {}

(* The class with which every reference is declared.                       *)
PropertyClass == "Base"

(* A date is its milliseconds and the ticks of a tenth of a microsecond    *)
(* beyond them, "part" a struct of an array of numbers and a number,       *)
(* "marks" a set of numbers and "named" a map from names to references.    *)
(* A number is a 64-bit integer.                                           *)
DefaultValue ==
    [number |-> 0, text |-> "", date |-> <<0, 0>>, other |-> Null, others |-> <<>>, dates |-> <<>>,
     part |-> [items |-> <<>>, count |-> 0], marks |-> {}, named |-> [n \in {} |-> Null]]

NewObject(class) ==
    [class |-> class, fields |-> [p \in Properties(class) |-> DefaultValue[p]]]

VARIABLES
    heap,            \* per object of the sender its class and fields
    form,            \* DefaultSerializer and ObjectSerializeres of both boxes
    targetClass,     \* TargetClass of the receiver's
    json,            \* the JSON of each node of the message under way
    changed,         \* the property whose value in it was exchanged
    createdObj,      \* the object that was broadcast
    arrived          \* whether the message was received

jsonVars == <<heap, form, targetClass, json, changed, createdObj, arrived>>

(* The form for a class: that of the class if it was given one.            *)
SerializerFor(class) ==
    IF class # Null /\ form[class] # "default" THEN form[class] ELSE form["default"]

KeyFor(class, property) == <<property, class \in Converting>>
Plain(name) == <<name, FALSE>>
TypeKey == Plain("Type")
BodyKey == Plain("Body")

(* What a double holds of a 64-bit integer: beyond MaxExact the next even  *)
(* number, of two the multiple of four.  (Bound: up to 2 * MaxExact.)      *)
AsDouble(n) == IF n <= MaxExact \/ n % 2 = 0 THEN n ELSE 4 * ((n + 1) \div 4)

JsonNull      == <<"null">>
JsonNumber(n) == <<"number", AsDouble(n)>>
JsonDate(ms)  == <<"date", ms>>       \* a string that is one in ISO 8601
EmptyObject   == <<"object", [k \in {} |-> JsonNull]>>
JsonReference(o, visited) == IF o = Null THEN JsonNull ELSE <<"node", <<o, visited>>>>

(* The message itself, and what the references in it lead to.              *)
Root  == <<Message, {}>>
Nodes == Objects \X {visited \in SUBSET Objects : Message \in visited}

IsArray(j)    == j[1] = "array"
IsObject(j)   == j[1] \in {"object", "node"}
Members(j)    == IF j[1] = "node" THEN json[j[2]][2] ELSE j[2]
Has(j, k)     == k \in DOMAIN Members(j) /\ Members(j)[k] # JsonNull

-----------------------------------------------------------------------------
(* From objects to JSON.                                                   *)

(* Mutant: the class of the property instead of the object's. *)
DeclaredTypeName(class, o) == class

TypeName(class, o) == heap[o].class

(* What ObjectJsonCallback has no answer to, and every struct, is written  *)
(* by the engine.                                                          *)
UPropertyToJsonValue(property, value) ==
    CASE property = "number" -> JsonNumber(value)
      [] property = "text"   -> <<"string", value>>
      [] property = "marks"  -> <<"array", [i \in DOMAIN SetToSeq(value) |->
                                               JsonNumber(SetToSeq(value)[i])]>>
      [] property = "part"   ->
           <<"object", [k \in {Plain("items"), Plain("count")} |->
               IF k = Plain("count") THEN JsonNumber(value.count)
               ELSE <<"array", [i \in DOMAIN value.items |-> JsonNumber(value.items[i])]>>]>>

(* A reference is a JSON object, an array of them an array and a map of    *)
(* them an object.  An array of dates is one string, of what is not a      *)
(* date, unless it is empty.                                               *)
ObjectJsonCallback(property, value, visited) ==
    CASE property = "other"  -> JsonReference(value, visited)
      [] property = "date"   -> JsonDate(value[1])
      [] property = "others" -> <<"array", [i \in DOMAIN value |-> JsonReference(value[i], visited)]>>
      [] property = "dates"  -> IF value = <<>> THEN <<"array", <<>>>> ELSE <<"string", "?">>
      [] property = "named"  -> <<"object", [k \in {Plain(n) : n \in DOMAIN value} |->
                                                JsonReference(value[k[1]], visited)]>>
      [] OTHER               -> UPropertyToJsonValue(property, value)

AddJsonValues(o, visited) ==
    <<"object", [k \in {KeyFor(heap[o].class, p) : p \in Properties(heap[o].class)} |->
                    ObjectJsonCallback(k[1], heap[o].fields[k[1]], visited)]>>

WithType(class, o, body) ==
    <<"object", [k \in {TypeKey, BodyKey} |->
        IF k = TypeKey THEN <<"string", TypeName(class, o)>> ELSE body]>>

(* An object that is being written is not written again within itself.     *)
UObjectToJsonObject(class, o, visited) ==
    IF o \in visited THEN EmptyObject
    ELSE IF SerializerFor(class) = "NoWriteType" THEN AddJsonValues(o, visited \union {o})
    ELSE WithType(class, o, AddJsonValues(o, visited \union {o}))

CreateJsonObject ==
    [node \in {Root} \union Nodes |->
        UObjectToJsonObject(IF node = Root THEN heap[Message].class ELSE PropertyClass,
                            node[1], node[2])]

-----------------------------------------------------------------------------
(* From JSON to objects; "made" is what the nodes are made into.  A value  *)
(* of the wrong kind leaves a property as it is, or sets a scalar to zero  *)
(* or nothing.                                                             *)

(* A string of digits is read as the integer, without a double.            *)
JsonValueToFNumericProperty(j) == IF j[1] \in {"number", "digits"} THEN j[2] ELSE 0

JsonValueToFStrProperty(j) == IF j[1] \in {"string", "digits"} THEN j[2] ELSE ""

(* What is no object and what makes none leaves the reference as it was.   *)
JsonValueToFObjectProperty(j, made) == IF IsObject(j) THEN made[j[2]] ELSE Null

(* What arrays, sets and maps hold.  Of an array where a single value is   *)
(* read the first element counts.                                          *)
ConvertInner(j, inner, made) ==
    IF inner = "number" THEN JsonValueToFNumericProperty(j)
    ELSE JsonValueToFObjectProperty(j, made)

JsonValueToInner(j, inner, made) ==
    IF ~IsArray(j) THEN ConvertInner(j, inner, made)
    ELSE IF j[2] = <<>> THEN DefaultValue[inner] ELSE ConvertInner(j[2][1], inner, made)

JsonValueToFArrayProperty(array, inner, made) ==
    [i \in DOMAIN array |-> IF array[i] = JsonNull THEN DefaultValue[inner]
                            ELSE JsonValueToInner(array[i], inner, made)]

(* A null makes no element of a set and no entry of a map; of a set only   *)
(* what is in it counts, not how often.                                    *)
JsonValueToFSetProperty(array, inner, made) ==
    {JsonValueToInner(array[i], inner, made) : i \in {k \in DOMAIN array : array[k] # JsonNull}}

JsonValueToFMapProperty(object, inner, made) ==
    [n \in {k[1] : k \in {l \in DOMAIN object : object[l] # JsonNull}} |->
        JsonValueToInner(object[Plain(n)], inner, made)]

(* The members are read in their order, up to one that cannot be.          *)
JsonObjectToUStruct(j, made) ==
    LET items == Has(j, Plain("items"))
        array == items /\ IsArray(Members(j)[Plain("items")])
    IN [items |-> IF array
                  THEN JsonValueToFArrayProperty(Members(j)[Plain("items")][2], "number", made)
                  ELSE DefaultValue.part.items,
        count |-> IF (items => array) /\ Has(j, Plain("count"))
                  THEN JsonValueToFNumericProperty(Members(j)[Plain("count")])
                  ELSE DefaultValue.part.count]

(* A date is made of a string that is one, another struct of an object.    *)
JsonValueToFStructProperty(j, property, made) ==
    CASE property = "date" /\ j[1] = "date" -> <<j[2], 0>>
      [] property = "part" /\ IsObject(j)   -> JsonObjectToUStruct(j, made)
      [] OTHER                              -> DefaultValue[property]

ConvertScalarJsonValue(j, property, made) ==
    CASE property \in {"number", "other"} -> ConvertInner(j, property, made)
      [] property = "text"   -> JsonValueToFStrProperty(j)
      [] property \in {"date", "part"} -> JsonValueToFStructProperty(j, property, made)
      [] property = "named"  -> IF IsObject(j) THEN JsonValueToFMapProperty(Members(j), "other", made)
                                ELSE DefaultValue.named

(* Arrays and sets are made of arrays only; one of dates holds but nulls.  *)
JsonValueToFProperty(j, property, made) ==
    CASE property \in {"others", "dates", "marks"} /\ ~IsArray(j) -> DefaultValue[property]
      [] property = "others" /\ IsArray(j) -> JsonValueToFArrayProperty(j[2], "other", made)
      [] property = "dates" /\ IsArray(j) -> [i \in DOMAIN j[2] |-> DefaultValue.date]
      [] property = "marks" /\ IsArray(j) -> JsonValueToFSetProperty(j[2], "number", made)
      [] OTHER -> IF ~IsArray(j) THEN ConvertScalarJsonValue(j, property, made)
                  ELSE IF j[2] = <<>> THEN DefaultValue[property]
                  ELSE ConvertScalarJsonValue(j[2][1], property, made)

JsonPropertyToFProperty(j, class, property, made) ==
    LET key == KeyFor(class, property)
    IN IF Has(j, key) THEN JsonValueToFProperty(Members(j)[key], property, made)
       ELSE DefaultValue[property]

JsonToFields(j, class, made) ==
    [class |-> class,
     fields |-> [p \in Properties(class) |-> JsonPropertyToFProperty(j, class, p, made)]]

WithoutTypeToUObject(j, class, made) ==
    IF class = Null THEN Null ELSE JsonToFields(j, class, made)

(* Without a class that the receiver has, or without a body, there is no   *)
(* object.                                                                 *)
WithTypeToUObject(j, made) ==
    IF /\ Has(j, TypeKey) /\ Has(j, BodyKey)
       /\ Members(j)[TypeKey] \in {<<"string", c>> : c \in Classes}
       /\ IsObject(Members(j)[BodyKey])
    THEN JsonToFields(Members(j)[BodyKey], Members(j)[TypeKey][2], made)
    ELSE Null

(* The class is the expected one, or the one the JSON names.               *)
JsonObjectToUObject(j, class, made) ==
    IF SerializerFor(class) = "NoWriteType" THEN WithoutTypeToUObject(j, class, made)
    ELSE WithTypeToUObject(j, made)

MadeOf[node \in DOMAIN json \ {Root}] == JsonObjectToUObject(json[node], PropertyClass, MadeOf)

-----------------------------------------------------------------------------

JsonInit(heaps) ==
    /\ heap \in heaps
    /\ form \in [Classes \union {"default"} -> {"default", "NoWriteType", "WriteType"}]
    /\ form["default"] # "default"
    /\ targetClass \in Classes \union {Null}
    /\ json = Null /\ changed = "nothing" /\ createdObj = Null /\ arrived = FALSE

SendMessage ==
    /\ json = Null
    /\ json' = CreateJsonObject
    /\ UNCHANGED <<heap, form, targetClass, changed, createdObj, arrived>>

(* A peer whose class has another kind of property of that name.           *)
OtherObject == <<Null, {}>>
OtherStruct == <<Null, {Null}>>
OtherObjects ==
    [node \in {OtherObject, OtherStruct} |->
        IF node = OtherObject THEN EmptyObject
        ELSE <<"object", [k \in {Plain("items"), Plain("count")} |-> JsonNumber(1)]>>]
OtherValues ==
    {JsonNull, <<"array", <<>>>>, <<"array", <<JsonNull>>>>, <<"string", "?">>, <<"digits", 2>>}
    \union
    {<<"node", node>> : node \in DOMAIN OtherObjects}

WithValue(j, key, v) ==
    IF key \in DOMAIN j[2] THEN [j EXCEPT ![2][key] = v] ELSE [j EXCEPT ![2][BodyKey][2][key] = v]

ExchangeValue ==
    /\ json # Null /\ changed = "nothing" /\ ~arrived
    /\ \E p \in Properties(heap[Message].class), v \in OtherValues :
          /\ json' = [node \in {Root} \union Nodes \union DOMAIN OtherObjects |->
                         CASE node = Root -> WithValue(json[Root], KeyFor(heap[Message].class, p), v)
                           [] node \in DOMAIN OtherObjects -> OtherObjects[node]
                           [] OTHER -> json[node]]
          /\ changed' = p
    /\ UNCHANGED <<heap, form, targetClass, createdObj, arrived>>

(* What is broadcast may be no object.                                     *)
NotifyReceiveBuffer ==
    /\ json # Null /\ ~arrived
    /\ createdObj' = JsonObjectToUObject(json[Root], targetClass, MadeOf)
    /\ arrived' = TRUE
    /\ UNCHANGED <<heap, form, targetClass, json, changed>>

JsonNext == SendMessage \/ ExchangeValue \/ NotifyReceiveBuffer

JsonSpec(heaps) == JsonInit(heaps) /\ [][JsonNext]_jsonVars

-----------------------------------------------------------------------------
(* What the two ends promise together, without a word of JSON.             *)

(* The object that takes the place of o where "class" is expected: of o's  *)
(* class if that is written, or else of the expected one.  It has o's      *)
(* values of the properties that both classes know by the same name.  An   *)
(* object it lies within is not repeated.                                  *)
ArrivesReference(r, within, inner) == IF r = Null THEN Null ELSE inner[<<r, within>>]

ArrivesValue(p, value, within, inner) ==
    CASE p = "other"  -> ArrivesReference(value, within, inner)
      [] p = "others" -> [i \in DOMAIN value |-> ArrivesReference(value[i], within, inner)]
      [] p = "named"  -> [n \in {m \in DOMAIN value : value[m] # Null} |->
                             ArrivesReference(value[n], within, inner)]
      [] p = "date"   -> <<value[1], 0>>
      [] p = "number" -> AsDouble(value)
      [] p = "marks"  -> {AsDouble(n) : n \in value}
      [] p = "part"   -> [items |-> [i \in DOMAIN value.items |-> AsDouble(value.items[i])],
                          count |-> AsDouble(value.count)]
      [] OTHER        -> value

BothKnow(p, class, other) ==
    p \in Properties(other) /\ (class \in Converting <=> other \in Converting)

ArrivesAs(o, class, within, inner) ==
    LET written == SerializerFor(class) = "WriteType"
        as      == IF written THEN heap[o].class ELSE class
    IN IF o \in within THEN IF written THEN Null ELSE NewObject(class)
       ELSE [class  |-> as,
             fields |-> [p \in Properties(as) |->
                            IF BothKnow(p, as, heap[o].class)
                            THEN ArrivesValue(p, heap[o].fields[p], within \union {o}, inner)
                            ELSE DefaultValue[p]]]

Arrives[node \in Nodes] == ArrivesAs(node[1], PropertyClass, node[2], Arrives)

Expected ==
    LET sent == SerializerFor(heap[Message].class)
        told == SerializerFor(targetClass)
    IN IF (told = "NoWriteType" /\ targetClass = Null) \/ (told = "WriteType" /\ sent # told) THEN Null
       ELSE IF sent # told THEN NewObject(targetClass)
       ELSE ArrivesAs(Message, targetClass, {}, Arrives)

HasNoDates(o) ==
    "dates" \in DOMAIN heap[o].fields => heap[o].fields.dates = <<>>

(* Whatever the objects refer to, in circles too, and however the classes  *)
(* are written, the receiver gets what the two ends promise, every number  *)
(* as near as a double holds it (unless there is an array of dates); a     *)
(* value the receiver cannot use costs it that property only.              *)
ObjectsArrive ==
    arrived /\ (\A o \in Objects : HasNoDates(o)) =>
        IF Expected = Null THEN createdObj = Null
        ELSE /\ createdObj # Null /\ createdObj.class = Expected.class
             /\ \A p \in Properties(Expected.class) \ {changed} :
                   createdObj.fields[p] = Expected.fields[p]
=============================================================================
