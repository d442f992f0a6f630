--------------------------- MODULE ManifestProofs ---------------------------
(***************************************************************************)
(* A manifest that is written and read again is the manifest it was,       *)
(* whatever JSON it came from: no field is lost or renamed by to_json, and *)
(* no default stands where a value was.                                    *)
(***************************************************************************)
EXTENDS Manifest, TLAPS

\* What Read returns: a struct with all its fields, in which only what is
\* Absent by default is Absent.
Fits(struct, value) ==
  /\ value = [field \in struct.required \cup DOMAIN struct.default |-> value[field]]
  /\ \A field \in DOMAIN value :
       /\ value[field] # Null
       /\ value[field] = Absent => field \in DOMAIN struct.default /\ struct.default[field] = Absent

LEMMA ReadFits ==
  ASSUME NEW struct, NEW json, IsStruct(struct, json),
         \A field \in DOMAIN struct.default : struct.default[field] # Null
  PROVE  Fits(struct, Read(struct, json))
<1> DEFINE value == Read(struct, json)
<1>1. value = [field \in struct.required \cup DOMAIN struct.default |-> value[field]]
  BY Zenon DEF Read
<1>2. DOMAIN value = struct.required \cup DOMAIN struct.default
  BY Zenon DEF Read
<1>3. ASSUME NEW field \in DOMAIN value
      PROVE  /\ value[field] # Null
             /\ value[field] = Absent => field \in DOMAIN struct.default /\ struct.default[field] = Absent
  <2>1. value[field] = IF field \in DOMAIN json /\ json[field] # Null THEN json[field] ELSE struct.default[field]
    BY <1>2, <1>3 DEF Read
  <2>2. CASE field \in DOMAIN json /\ json[field] # Null
    BY <2>1, <2>2 DEF IsStruct
  <2>3. CASE ~(field \in DOMAIN json /\ json[field] # Null)
    <3>1. field \notin struct.required
      BY <2>3 DEF IsStruct
    <3> QED BY <1>2, <1>3, <2>1, <2>3, <3>1
  <2> QED BY <2>2, <2>3
<1> QED BY <1>1, <1>3 DEF Fits

LEMMA ReadOfWrite ==
  ASSUME NEW struct, NEW value, Fits(struct, value)
  PROVE  Read(struct, Write(value)) = value
<1> DEFINE fields == struct.required \cup DOMAIN struct.default
           written == Write(value)
<1>1. value = [field \in fields |-> value[field]]
  BY DEF Fits
<1>2. DOMAIN value = fields
  BY <1>1
<1>3. DOMAIN written = {field \in fields : value[field] # Absent}
  BY <1>2 DEF Write
<1>4. \A field \in DOMAIN written : written[field] = value[field]
  BY <1>2 DEF Write
<1> HIDE DEF written
<1>5. ASSUME NEW field \in fields
      PROVE  value[field] =
               IF field \in DOMAIN written /\ written[field] # Null THEN written[field] ELSE struct.default[field]
  <2>1. CASE value[field] = Absent
    BY <1>2, <1>3, <1>5, <2>1 DEF Fits
  <2>2. CASE value[field] # Absent
    <3>1. field \in DOMAIN written /\ written[field] = value[field] /\ value[field] # Null
      BY <1>2, <1>3, <1>4, <1>5, <2>2 DEF Fits
    <3> QED BY <3>1
  <2> QED BY <2>1, <2>2
<1>6. Read(struct, written) = [field \in fields |-> value[field]]
  BY <1>5 DEF Read
<1> QED BY <1>1, <1>6 DEF written

\* Lists are written and read one by one.
LEMMA ReadAllOfWriteAll ==
  ASSUME NEW struct, NEW list, list = [i \in DOMAIN list |-> list[i]],
         \A i \in DOMAIN list : Fits(struct, list[i])
  PROVE  ReadAll(struct, WriteAll(list)) = list
<1>1. \A i \in DOMAIN list : Read(struct, Write(list[i])) = list[i]
  BY ReadOfWrite
<1>2. DOMAIN WriteAll(list) = DOMAIN list /\ \A i \in DOMAIN list : WriteAll(list)[i] = Write(list[i])
  BY DEF WriteAll
<1>3. ReadAll(struct, WriteAll(list)) = [i \in DOMAIN list |-> list[i]]
  BY <1>1, <1>2 DEF ReadAll
<1> QED BY <1>3

\* What ReadAll makes of a list can be written and read.
LEMMA ReadAllFits ==
  ASSUME NEW struct, NEW list, \A element \in Elements(list) : IsStruct(struct, element),
         \A field \in DOMAIN struct.default : struct.default[field] # Null
  PROVE  ReadAll(struct, WriteAll(ReadAll(struct, list))) = ReadAll(struct, list)
<1> DEFINE value == ReadAll(struct, list)
<1>1. DOMAIN value = DOMAIN list /\ \A i \in DOMAIN list : value[i] = Read(struct, list[i])
  BY DEF ReadAll
<1>2. value = [i \in DOMAIN value |-> value[i]]
  BY DEF ReadAll
<1>3. \A i \in DOMAIN list : IsStruct(struct, list[i])
  BY DEF Elements
<1>4. \A i \in DOMAIN value : Fits(struct, value[i])
  BY <1>1, <1>3, ReadFits
<1> HIDE DEF value
<1>5. ReadAll(struct, WriteAll(value)) = value
  BY <1>2, <1>4, ReadAllOfWriteAll
<1> QED BY <1>5 DEF value

\* Another value in one field of a struct fits it as well, unless it is
\* Null, or is Absent where that is not the default.
LEMMA FitsExcept ==
  ASSUME NEW struct, NEW value, Fits(struct, value), NEW name \in DOMAIN value, NEW new,
         new # Null, new = Absent => name \in DOMAIN struct.default /\ struct.default[name] = Absent
  PROVE  Fits(struct, [value EXCEPT ![name] = new])
<1> DEFINE other == [value EXCEPT ![name] = new]
<1>1. DOMAIN value = struct.required \cup DOMAIN struct.default
  BY DEF Fits
<1>2. DOMAIN other = DOMAIN value
  BY Zenon
<1>3. other = [field \in DOMAIN value |-> other[field]]
  BY Zenon
<1>4. \A field \in DOMAIN value : other[field] = IF field = name THEN new ELSE value[field]
  BY Zenon
<1> HIDE DEF other
<1>5. \A field \in DOMAIN other :
        /\ other[field] # Null
        /\ other[field] = Absent => field \in DOMAIN struct.default /\ struct.default[field] = Absent
  BY <1>2, <1>4 DEF Fits
<1>6. other = [field \in struct.required \cup DOMAIN struct.default |-> other[field]]
  BY <1>1, <1>3
<1>7. Fits(struct, other)
  BY <1>5, <1>6 DEF Fits
<1> QED BY <1>7 DEF other

-----------------------------------------------------------------------------
LEMMA FieldNames ==
  /\ "components" \in SCREEN.required \cup DOMAIN SCREEN.default
  /\ {"entry", "slots", "screens"} \subseteq MANIFEST.required \cup DOMAIN MANIFEST.default
BY DEF SCREEN, MANIFEST

LEMMA NoNullDefault ==
  \A struct \in {SLOT, COMPONENT, SCREEN, ENTRY, MANIFEST} :
    \A field \in DOMAIN struct.default : struct.default[field] # Null
BY ManifestAssumption

LEMMA ScreenRoundTrip ==
  ASSUME NEW json, IsStruct(SCREEN, json),
         \A component \in Elements(Read(SCREEN, json).components) : IsStruct(COMPONENT, component),
         WriteAll(ReadScreen(json).components) \notin {Absent, Null}
  PROVE  ReadScreen(WriteScreen(ReadScreen(json))) = ReadScreen(json)
<1> DEFINE read == Read(SCREEN, json)
           list == ReadAll(COMPONENT, read.components)
           screen == [read EXCEPT !.components = list]
           writable == [screen EXCEPT !.components = WriteAll(list)]
<1>1. Fits(SCREEN, read)
  BY ReadFits, NoNullDefault
<1>2. "components" \in DOMAIN read
  BY <1>1, FieldNames DEF Fits
<1>3. ReadAll(COMPONENT, WriteAll(list)) = list
  BY ReadAllFits, NoNullDefault
<1>4. ReadScreen(json) = screen
  BY DEF ReadScreen
<1> HIDE DEF read, list
<1>5. screen.components = list
  BY <1>2
<1>6. writable = [read EXCEPT !.components = WriteAll(list)]
  BY Zenon
<1>7. Fits(SCREEN, writable)
  <2>1. WriteAll(list) \notin {Absent, Null}
    BY <1>4, <1>5
  <2>2. Fits(SCREEN, [read EXCEPT !["components"] = WriteAll(list)])
    BY <1>1, <1>2, <2>1, FitsExcept
  <2> QED BY <1>6, <2>2
<1>8. WriteScreen(screen) = Write(writable)
  BY <1>5 DEF WriteScreen
<1>9. Read(SCREEN, Write(writable)) = writable
  BY <1>7, ReadOfWrite
<1>10. writable.components = WriteAll(list)
  BY <1>2
<1>11. ReadScreen(WriteScreen(screen)) = [writable EXCEPT !.components = list]
  BY <1>3, <1>8, <1>9, <1>10 DEF ReadScreen
<1>12. [writable EXCEPT !.components = list] = screen
  BY Zenon
<1> QED BY <1>4, <1>11, <1>12

\* For every JSON that from_json reads, what it reads is what it reads again
\* after to_json.
THEOREM ManifestRoundTrip ==
  ASSUME NEW json, IsManifest(json), Unmarked(from_json(json))
  PROVE  from_json(to_json(from_json(json))) = from_json(json)
<1> DEFINE read == Read(MANIFEST, json)
           entry == IF read.entry = Absent THEN Absent ELSE Read(ENTRY, read.entry)
           slots == ReadAll(SLOT, read.slots)
           screens == [i \in DOMAIN read.screens |-> ReadScreen(read.screens[i])]
           m == from_json(json)
           entryJson == IF entry = Absent THEN Absent ELSE Write(entry)
           slotsJson == WriteAll(slots)
           screensJson == [i \in DOMAIN screens |-> WriteScreen(screens[i])]
           writable == [m EXCEPT !.entry = entryJson, !.slots = slotsJson, !.screens = screensJson]
<1>1. Fits(MANIFEST, read)
  BY ReadFits, NoNullDefault DEF IsManifest
<1>2. {"entry", "slots", "screens"} \subseteq DOMAIN read
  BY <1>1, FieldNames DEF Fits
<1>3. m = [read EXCEPT !.entry = entry, !.slots = slots, !.screens = screens]
  BY Zenon DEF from_json
<1>4. ReadAll(SLOT, slotsJson) = slots
  BY ReadAllFits, NoNullDefault DEF IsManifest
<1>5. entry # Absent => Read(ENTRY, entryJson) = entry
  <2>1. read.entry # Absent => Fits(ENTRY, Read(ENTRY, read.entry))
    BY ReadFits, NoNullDefault DEF IsManifest
  <2> QED BY <2>1, ReadOfWrite
<1>6. [i \in DOMAIN screensJson |-> ReadScreen(screensJson[i])] = screens
  <2>1. ASSUME NEW i \in DOMAIN screens PROVE ReadScreen(WriteScreen(screens[i])) = screens[i]
    <3>1. screens[i] = ReadScreen(read.screens[i]) /\ read.screens[i] \in Elements(read.screens)
      BY <2>1 DEF Elements
    <3>2. /\ IsStruct(SCREEN, read.screens[i])
          /\ \A component \in Elements(Read(SCREEN, read.screens[i]).components) : IsStruct(COMPONENT, component)
      BY <3>1 DEF IsManifest
    <3>3. m.screens = screens
      BY <1>2, <1>3
    <3>4. WriteAll(ReadScreen(read.screens[i]).components) \notin {Absent, Null}
      BY <2>1, <3>1, <3>3 DEF Unmarked, Elements
    <3> QED BY <3>1, <3>2, <3>4, ScreenRoundTrip
  <2> QED BY <2>1
<1>7. m.entry = entry /\ m.slots = slots /\ m.screens = screens
  <2> HIDE DEF read, entry, slots, screens, m
  <2> QED BY <1>2, <1>3
<1>8. /\ entry = Absent \/ Write(entry) \notin {Absent, Null}
      /\ slotsJson \notin {Absent, Null} /\ screensJson \notin {Absent, Null}
  BY <1>7 DEF Unmarked
<1> HIDE DEF read, entry, slots, screens, m
<1>9. Fits(MANIFEST, writable)
  <2> DEFINE one == [read EXCEPT !["entry"] = entryJson]
             two == [one EXCEPT !["slots"] = slotsJson]
             three == [two EXCEPT !["screens"] = screensJson]
  <2>1. Absent # Null /\ "entry" \in DOMAIN MANIFEST.default /\ MANIFEST.default["entry"] = Absent
    <3>1. "entry" \in DOMAIN MANIFEST.default /\ MANIFEST.default["entry"] = Absent
      BY DEF MANIFEST
    <3> QED BY <3>1, NoNullDefault
  <2>2. entryJson # Null
    BY <1>8, <2>1
  <2> HIDE DEF entryJson, slotsJson, screensJson
  <2>3. Fits(MANIFEST, one) /\ DOMAIN one = DOMAIN read
    BY <1>1, <1>2, <2>1, <2>2, FitsExcept
  <2> HIDE DEF one
  <2>4. Fits(MANIFEST, two) /\ DOMAIN two = DOMAIN read
    BY <1>2, <1>8, <2>3, FitsExcept
  <2> HIDE DEF two
  <2>5. Fits(MANIFEST, three)
    BY <1>2, <1>8, <2>4, FitsExcept
  <2>6. writable = three
    BY <1>3 DEF one, two
  <2> QED BY <2>5, <2>6
<1>10. to_json(m) = Write(writable)
  BY <1>7 DEF to_json
<1>11. Read(MANIFEST, to_json(m)) = writable
  BY <1>9, <1>10, ReadOfWrite
<1>12. writable.entry = entryJson /\ writable.slots = slotsJson /\ writable.screens = screensJson
  <2> HIDE DEF entryJson, slotsJson, screensJson
  <2> QED BY <1>2, <1>3
<1>13. (IF entryJson = Absent THEN Absent ELSE Read(ENTRY, entryJson)) = entry
  BY <1>5, <1>8
<1> HIDE DEF entryJson, slotsJson, screensJson
<1>14. from_json(to_json(m)) = [writable EXCEPT !.entry = entry, !.slots = slots, !.screens = screens]
  <2> HIDE DEF writable
  <2> QED BY <1>4, <1>6, <1>11, <1>12, <1>13 DEF from_json
<1>15. [writable EXCEPT !.entry = entry, !.slots = slots, !.screens = screens] = m
  BY <1>3
<1> QED BY <1>14, <1>15 DEF m
=============================================================================
