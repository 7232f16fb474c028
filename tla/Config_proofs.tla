--------------------------- MODULE Config_proofs ---------------------------
(***************************************************************************)
(* Theorems about Config, for any files and any sizes.                     *)
(***************************************************************************)
EXTENDS Config, WellFoundedInduction, TLAPS

USE SizesAssumption

-----------------------------------------------------------------------------
(* Induction, in the form of a least counterexample.                       *)

LEMMA NatHasLeast ==
    ASSUME NEW S \in SUBSET Nat, S # {}
    PROVE  \E m \in S : \A k \in S : m <= k
<1>1. IsWellFoundedOn(OpToRel(<, Nat), Nat)
  BY NatLessThanWellFounded
<1>2. PICK m \in S : \A k \in S : ~(<<k, m>> \in OpToRel(<, Nat))
  BY <1>1, WFMin
<1>3. \A k \in S : ~(k < m)
  BY <1>2 DEF OpToRel
<1>4. QED
  BY <1>3

\* A set that has 0, and the successor of each of its members, has all the numbers to N.
LEMMA UpTo ==
    ASSUME NEW N \in Nat, NEW S, 0 \in S, \A n \in 1 .. N : n - 1 \in S => n \in S
    PROVE  \A n \in 0 .. N : n \in S
<1> DEFINE rest == {n \in 0 .. N : n \notin S}
<1> SUFFICES ASSUME rest # {} PROVE FALSE
  OBVIOUS
<1>1. rest \in SUBSET Nat
  OBVIOUS
<1>2. PICK m \in rest : \A k \in rest : m <= k
  BY <1>1, NatHasLeast
<1>3. m \in 1 .. N /\ m - 1 \in 0 .. N
  BY <1>2
<1>4. m - 1 \notin rest
  BY <1>2, <1>3
<1>5. QED
  BY <1>2, <1>3, <1>4

-----------------------------------------------------------------------------
(* Parsing a text, pair by pair.                                           *)

LEMMA BothAccepted ==
    ASSUME NEW parse, NEW r
    PROVE  /\ AndThen(parse, r).ok <=> parse.ok /\ r.ok
           /\ AndThen(parse, r).config = r.config
BY Zenon DEF AndThen

\* f is what ini_parse made of the first n pairs, for each n.
IsParse(f, text, handler, config, size) ==
    f = [n \in 0 .. size |-> IF n = 0 THEN Unread(config)
                             ELSE AndThen(f[n - 1], Handle(handler, f[n - 1].config, text[n]))]

LEMMA ParseExists ==
    ASSUME NEW text, NEW handler, NEW config, NEW N \in Nat
    PROVE  \E f : IsParse(f, text, handler, config, N)
<1> DEFINE S == {n \in 0 .. N : \E f : IsParse(f, text, handler, config, n)}
<1>1. 0 \in S
  <2> DEFINE g == [n \in 0 .. 0 |-> Unread(config)]
  <2>1. IsParse(g, text, handler, config, 0)
    BY DEF IsParse
  <2>2. QED
    BY <2>1
<1>2. ASSUME NEW n \in 1 .. N, n - 1 \in S PROVE n \in S
  <2>1. PICK f : IsParse(f, text, handler, config, n - 1)
    BY <1>2
  <2> DEFINE g == [m \in 0 .. n |->
                      IF m = n THEN AndThen(f[n - 1], Handle(handler, f[n - 1].config, text[n]))
                      ELSE f[m]]
  <2>2. \A m \in 0 .. n - 1 : g[m] = f[m]
    OBVIOUS
  <2>3. f[0] = Unread(config)
        /\ \A m \in 1 .. n - 1 : f[m] = AndThen(f[m - 1], Handle(handler, f[m - 1].config, text[m]))
    BY <2>1 DEF IsParse
  <2>4. \A m \in 1 .. n : g[m] = AndThen(g[m - 1], Handle(handler, g[m - 1].config, text[m]))
    <3> SUFFICES ASSUME NEW m \in 1 .. n
                 PROVE  g[m] = AndThen(g[m - 1], Handle(handler, g[m - 1].config, text[m]))
      OBVIOUS
    <3>1. g[m - 1] = f[m - 1]
      BY <2>2
    <3>2. CASE m = n
      BY <3>1, <3>2
    <3>3. CASE m # n
      <4>1. m \in 1 .. n - 1
        BY <3>3
      <4>2. g[m] = f[m]
        BY <2>2, <4>1
      <4>3. QED
        BY <2>3, <3>1, <4>1, <4>2
    <3>4. QED
      BY <3>2, <3>3
  <2>5. g[0] = Unread(config)
    BY <2>2, <2>3
  <2>6. g = [m \in 0 .. n |-> g[m]]
    OBVIOUS
  <2> HIDE DEF g
  <2>7. \A m \in 0 .. n : g[m] = IF m = 0 THEN Unread(config)
                             ELSE AndThen(g[m - 1], Handle(handler, g[m - 1].config, text[m]))
    BY <2>4, <2>5
  <2>8. IsParse(g, text, handler, config, n)
    BY <2>6, <2>7, Zenon DEF IsParse
  <2>9. QED
    BY <2>8
<1>3. N \in S
  <2> HIDE DEF S
  <2>1. QED
    BY <1>1, <1>2, UpTo
<1>4. QED
  BY <1>3

\* f[n] is what ini_parse made of the first n pairs.
Reads(f, text, handler, config) ==
    /\ IniParse(text, handler, config) = f[Len(text)]
    /\ f[0] = Unread(config)
    /\ \A n \in 1 .. Len(text) :
          f[n] = AndThen(f[n - 1], Handle(handler, f[n - 1].config, text[n]))

LEMMA ParseFacts ==
    ASSUME NEW text \in IniTexts, NEW handler, NEW config
    PROVE  \E f : Reads(f, text, handler, config)
<1> DEFINE f == CHOOSE f : IsParse(f, text, handler, config, Len(text))
<1>1. Len(text) \in Nat
  BY DEF IniTexts
<1>2. IsParse(f, text, handler, config, Len(text))
  BY <1>1, ParseExists
<1>3. IniParse(text, handler, config) = f[Len(text)]
  BY DEF IniParse, IsParse
<1> HIDE DEF f
<1>4. /\ f[0] = Unread(config)
      /\ \A n \in 1 .. Len(text) :
            f[n] = AndThen(f[n - 1], Handle(handler, f[n - 1].config, text[n]))
  BY <1>1, <1>2 DEF IsParse
<1>5. QED
  BY <1>3, <1>4, Zenon DEF Reads

\* f[n] is what was made of the first n pairs.
Parses(f, text, keys, valid, config) ==
    /\ f[0].ok = TRUE
    /\ \A key \in keys : f[0].config[key] = config[key]
    /\ \A n \in 1 .. Len(text) :
        /\ f[n].ok <=> f[n - 1].ok /\ text[n][1] \in valid /\ Acceptable(text[n][1], text[n][2])
        /\ f[n].ok => \A key \in keys :
            f[n].config[key] = IF key = text[n][1] THEN Meaning(key, text[n][2])
                               ELSE f[n - 1].config[key]

\* Such a parse accepts the well-formed texts, and stores what they say.
LEMMA ParsesRight ==
    ASSUME NEW f, NEW text \in IniTexts, NEW keys, NEW valid, NEW config,
           Parses(f, text, keys, valid, config)
    PROVE  /\ f[Len(text)].ok <=> WellFormed(text, valid)
           /\ f[Len(text)].ok => Holds(f[Len(text)].config, text, keys, config)
<1> DEFINE N == Len(text)
<1> DEFINE Good(m) == text[m][1] \in valid /\ Acceptable(text[m][1], text[m][2])
<1> DEFINE Last(m, n, key) == text[m][1] = key /\ \A l \in 1 .. n : text[l][1] = key => l <= m
<1> DEFINE Told(n, key) ==
        \/ /\ \A m \in 1 .. n : text[m][1] # key
           /\ f[n].config[key] = config[key]
        \/ \E m \in 1 .. n : Last(m, n, key) /\ f[n].config[key] = Meaning(key, text[m][2])
<1> DEFINE Right(n) == /\ f[n].ok <=> \A m \in 1 .. n : Good(m)
                       /\ f[n].ok => \A key \in keys : Told(n, key)
<1> DEFINE S == {n \in 0 .. N : Right(n)}
<1>1. N \in Nat /\ DOMAIN text = 1 .. N
  BY DEF IniTexts
<1>2. 0 \in S
  BY <1>1 DEF Parses
<1>3. ASSUME NEW n \in 1 .. N, n - 1 \in S PROVE n \in S
  <2>1. f[n].ok <=> f[n - 1].ok /\ Good(n)
    BY <1>3 DEF Parses
  <2>2. f[n - 1].ok <=> \A m \in 1 .. n - 1 : Good(m)
    BY <1>3
  <2>3. f[n].ok <=> \A m \in 1 .. n : Good(m)
    <3> HIDE DEF Good
    <3>1. 1 .. n = (1 .. n - 1) \cup {n}
      BY <1>1
    <3>2. QED
      BY <2>1, <2>2, <3>1
  <2>4. ASSUME f[n].ok, NEW key \in keys PROVE Told(n, key)
    <3>1. f[n].config[key] = IF key = text[n][1] THEN Meaning(key, text[n][2])
                             ELSE f[n - 1].config[key]
      BY <2>4 DEF Parses
    <3>2. CASE key = text[n][1]
      <4>1. Last(n, n, key)
        BY <1>1, <3>2
      <4>2. QED
        BY <3>1, <3>2, <4>1, <1>1
    <3>3. CASE key # text[n][1]
      <4>1. Told(n - 1, key)
        BY <1>3, <2>1, <2>4
      <4>2. \A m \in 1 .. n : m \in 1 .. n - 1 \/ m = n
        BY <1>1
      <4>3. \A m \in 1 .. n - 1 : m \in 1 .. n
        BY <1>1
      <4>4. ASSUME NEW m \in 1 .. n - 1, Last(m, n - 1, key) PROVE Last(m, n, key)
        BY <3>3, <4>2, <4>4
      <4> HIDE DEF Last
      <4>5. QED
        BY <3>1, <3>3, <4>1, <4>2, <4>3, <4>4
    <3>4. QED
      BY <3>2, <3>3
  <2> HIDE DEF Told, Good
  <2>5. QED
    BY <1>1, <1>3, <2>3, <2>4
<1>4. Right(N)
  <2> HIDE DEF Right
  <2>1. \A n \in 0 .. N : n \in S
    <3> HIDE DEF S
    <3>1. QED
      BY <1>1, <1>2, <1>3, UpTo
  <2>2. QED
    BY <1>1, <2>1
<1>5. f[N].ok <=> WellFormed(text, valid)
  BY <1>1, <1>4 DEF WellFormed
<1>6. ASSUME f[N].ok PROVE Holds(f[N].config, text, keys, config)
  <2> SUFFICES ASSUME NEW key \in keys
               PROVE  IF Lines(text, key) = {} THEN f[N].config[key] = config[key]
                      ELSE Says(text, key, f[N].config[key])
    BY DEF Holds
  <2>1. Told(N, key)
    BY <1>4, <1>6
  <2>2. CASE /\ \A m \in 1 .. N : text[m][1] # key
             /\ f[N].config[key] = config[key]
    BY <1>1, <2>2 DEF Lines
  <2>3. ASSUME NEW m \in 1 .. N, Last(m, N, key), f[N].config[key] = Meaning(key, text[m][2])
        PROVE  Lines(text, key) # {} /\ Says(text, key, f[N].config[key])
    <3>1. m \in Lines(text, key) /\ \A l \in Lines(text, key) : l <= m
      BY <1>1, <2>3 DEF Lines
    <3>2. QED
      BY <2>3, <3>1 DEF Says
  <2>4. QED
    BY <2>1, <2>2, <2>3
<1>7. QED
  BY <1>5, <1>6

-----------------------------------------------------------------------------
(* The handlers.                                                           *)

IsWatch(c) ==
    /\ c = [key \in WatchKeys \cup {"is_active"} |-> c[key]]
    /\ \A key \in Flags \cup {"is_active"} : c[key] \in BOOLEAN
    /\ \A key \in Strict \cup Loose : Len(c[key]) < Size(key)
    /\ c["filename"] \in DOMAIN Basename \cup {""}

IsDaemon(c) ==
    /\ c = [key \in DaemonKeys |-> c[key]]
    /\ \A key \in DaemonFlags : c[key] \in BOOLEAN
    /\ c["db_timeout"] \in 0 .. SHRT_MAX

\* The value of a pair of a watch's text.
LEMMA ValuesAreStrings ==
    ASSUME NEW f \in Files, NEW text \in Texts[f], NEW n \in 1 .. Len(text)
    PROVE  LET key == text[n][1]
               value == text[n][2]
           IN  /\ Len(value) \in Nat
               /\ SubSeq(value, 1, Len(value)) = value
               /\ \A m \in 0 .. Len(value) : Len(SubSeq(value, 1, m)) = m
               /\ key = "filename" /\ Len(value) < CFG_SZ_MAX => value \in DOMAIN Basename \cup {""}
<1>1. text \in IniTexts
  BY TextsAssumption
<1>2. n \in DOMAIN text
  BY <1>1 DEF IniTexts
<1>3. QED
  BY <1>2, StringsAssumption, BasenameAssumption, ZenonT(60)

\* Meaning, by the kind of a key.
LEMMA MeaningOfKind ==
    ASSUME NEW key, NEW value
    PROVE  /\ key \in Strict => Meaning(key, value) = value
           /\ key \in Loose => Meaning(key, value) = SubSeq(value, 1, Least(Len(value), Size(key) - 1))
           /\ key \in Flags \cup DaemonFlags => Meaning(key, value) = TruthOf(value)
           /\ key = "db_timeout" => Meaning(key, value) = Least(Numeral[value].value, SHRT_MAX)
<1>1. CASE key \in Strict
  <2>1. key \notin Loose \cup Flags \cup DaemonFlags /\ key # "db_timeout"
    BY <1>1 DEF Strict, Loose, Flags, DbKeys, DaemonFlags
  <2>2. QED
    BY <1>1, <2>1 DEF Meaning
<1>2. CASE key \in Loose
  <2>1. key \notin Strict \cup Flags \cup DaemonFlags /\ key # "db_timeout"
    BY <1>2 DEF Strict, Loose, Flags, DbKeys, DaemonFlags
  <2>2. QED
    BY <1>2, <2>1 DEF Meaning
<1>3. CASE key \in Flags \cup DaemonFlags
  <2>1. key \notin Strict \cup Loose /\ key # "db_timeout"
    BY <1>3 DEF Strict, Loose, Flags, DbKeys, DaemonFlags
  <2>2. QED
    BY <1>3, <2>1 DEF Meaning
<1>4. CASE key = "db_timeout"
  <2>1. key \notin Strict \cup Loose \cup Flags \cup DaemonFlags
    BY <1>4 DEF Strict, Loose, Flags, DbKeys, DaemonFlags
  <2>2. QED
    BY <1>4, <2>1 DEF Meaning
<1>5. QED
  BY <1>1, <1>2, <1>3, <1>4

LEMMA FlagsAreBoolean ==
    ASSUME NEW dst, NEW value
    PROVE  LET r == Strtobool(dst, value) IN
           /\ r.ok <=> value \in {"true", "yes", "1", "on", "false", "no", "0", "off"}
           /\ r.ok => r.dst = TruthOf(value)
           /\ r.dst \in BOOLEAN \/ r.dst = dst
BY DEF Strtobool, TruthOf, Took, Refused

LEMMA NumbersAreClamped ==
    ASSUME NEW dst, NEW value
    PROVE  LET r == StrtoulHu(dst, value) IN
           /\ r.ok <=> IsNumber(value)
           /\ r.ok => r.dst = Least(Numeral[value].value, SHRT_MAX)
           /\ r.dst \in 0 .. SHRT_MAX \/ r.dst = dst
<1>1. value \in DOMAIN Numeral => Numeral[value].value \in Nat
  BY NumeralAssumption
<1>2. SHRT_MAX \in Nat /\ ULONG_MAX \in Nat
  OBVIOUS
<1>3. QED
  BY <1>1, <1>2 DEF StrtoulHu, IsNumber, Least, Took, Refused

LEMMA KeysDiffer ==
    /\ WatchKeys \cap DaemonKeys = {} /\ "is_active" \notin WatchKeys
    /\ Strict \cap Loose = {} /\ Flags \cap (Strict \cup Loose \cup DaemonKeys) = {}
    /\ (Ignored \cup {"db_timeout"}) \cap WatchKeys = {}
    /\ "db_timeout" \notin DaemonFlags /\ "filename" \in Strict
    /\ WatchKeys = Strict \cup Loose \cup Flags /\ DbKeys \subseteq Loose
    /\ DaemonKeys = DaemonFlags \cup {"db_timeout"} /\ "db_timeout" \notin WatchKeys
BY DEF WatchKeys, DaemonKeys, Strict, Loose, Flags, DbKeys, Ignored, DaemonFlags

\* A pair of a watch's file: it is accepted if it may be, and then stored as it is
\* meant; otherwise the config keeps its type.
LEMMA WatchHandlerStores ==
    ASSUME NEW c, IsWatch(c), NEW f \in Files, NEW text \in Texts[f], NEW n \in 1 .. Len(text)
    PROVE  LET key == text[n][1]
               value == text[n][2]
               r == Handle("watch_handler", c, text[n])
           IN  /\ r.ok <=> key \in WatchKeys \cup Ignored /\ Acceptable(key, value)
               /\ r.ok => \A k \in WatchKeys : r.config[k] = IF k = key THEN Meaning(key, value) ELSE c[k]
               /\ IsWatch(r.config)
               /\ r.config["is_active"] = c["is_active"]
<1> DEFINE key == text[n][1]
<1> DEFINE value == text[n][2]
<1> DEFINE r == Handle("watch_handler", c, text[n])
<1> DEFINE v == WatchValue(c[key], key, value)
<1> DEFINE fits == Len(value) < CFG_SZ_MAX
<1>1. /\ Len(value) \in Nat
      /\ SubSeq(value, 1, Len(value)) = value
      /\ \A m \in 0 .. Len(value) : Len(SubSeq(value, 1, m)) = m
  BY ValuesAreStrings
<1>2. key = "filename" /\ fits => value \in DOMAIN Basename \cup {""}
  BY ValuesAreStrings
<1>3. r = WatchHandler(c, key, value)
  BY DEF Handle
<1>4. CASE key \notin WatchKeys
  <2>1. r.ok = (key \in Ignored) /\ r.config = c
    BY <1>3, <1>4 DEF WatchHandler
  <2>2. key \in Ignored => Acceptable(key, value)
    BY DEF Acceptable
  <2>3. QED
    BY <1>4, <2>1, <2>2
<1>5. CASE key \in Flags
  <2>1. v = Strtobool(c[key], value)
    BY <1>5 DEF WatchValue
  <2>2. key \in WatchKeys /\ key \notin Strict \cup Loose /\ key # "filename" /\ key # "is_active"
    BY <1>5, KeysDiffer
  <2>3. Acceptable(key, value) <=> value \in {"true", "yes", "1", "on", "false", "no", "0", "off"}
    BY <1>5, <2>2, KeysDiffer DEF Acceptable, Ignored
  <2>4. Meaning(key, value) = TruthOf(value)
    BY <1>5, MeaningOfKind
  <2>5. r.ok = v.ok /\ r.config = [c EXCEPT ![key] = v.dst]
    <3>1. r = Stored(c, key, v)
      BY <1>3, <2>2 DEF WatchHandler
    <3> HIDE DEF r, v, key
    <3>2. QED
      BY <3>1 DEF Stored
  <2>6. v.dst \in BOOLEAN
    <3>1. v.dst \in BOOLEAN \/ v.dst = c[key]
      BY <2>1, FlagsAreBoolean
    <3>2. QED
      BY <3>1, <1>5 DEF IsWatch
  <2> HIDE DEF key, value, r, v
  <2>7. \A k \in WatchKeys \cup {"is_active"} : r.config[k] = IF k = key THEN v.dst ELSE c[k]
    BY <2>5, <2>2 DEF IsWatch
  <2>8. r.ok <=> key \in WatchKeys \cup Ignored /\ Acceptable(key, value)
    BY <2>1, <2>2, <2>3, <2>5, FlagsAreBoolean
  <2>9. r.ok => v.dst = Meaning(key, value)
    BY <2>1, <2>4, <2>5, FlagsAreBoolean
  <2>10. IsWatch(r.config)
    <3>1. r.config = [k \in WatchKeys \cup {"is_active"} |-> r.config[k]]
      BY <2>5 DEF IsWatch
    <3>2. QED
      BY <1>5, <2>2, <2>6, <2>7, <3>1, KeysDiffer DEF IsWatch
  <2>11. QED
    BY <2>2, <2>7, <2>8, <2>9, <2>10 DEF key, value, r
<1>6. CASE key \in Strict \cup Loose
  <2>1. Size(key) \in Nat \ {0}
    BY DEF Size
  <2>2. v = IF Len(value) < Size(key) THEN Took(value)
            ELSE IF key \in Loose THEN Took(SubSeq(value, 1, Size(key) - 1)) ELSE Refused(c[key])
    BY <1>6, KeysDiffer DEF WatchValue, Str5cpy
  <2>3. /\ v.ok <=> key \in Loose \/ Len(value) < Size(key)
        /\ v.ok => v.dst = SubSeq(value, 1, Least(Len(value), Size(key) - 1))
        /\ Len(value) < Size(key) => v.dst = value
        /\ Len(v.dst) < Size(key) \/ v.dst = c[key]
    <3> HIDE DEF key, value, v
    <3>1. CASE Len(value) < Size(key)
      <4>1. v.ok = TRUE /\ v.dst = value
        BY <2>2, <3>1 DEF Took
      <4>2. Least(Len(value), Size(key) - 1) = Len(value)
        BY <1>1, <2>1, <3>1 DEF Least
      <4>3. QED
        BY <1>1, <3>1, <4>1, <4>2
    <3>2. CASE ~(Len(value) < Size(key)) /\ key \in Loose
      <4>1. v.ok = TRUE /\ v.dst = SubSeq(value, 1, Size(key) - 1)
        BY <2>2, <3>2 DEF Took
      <4>2. Least(Len(value), Size(key) - 1) = Size(key) - 1
        BY <1>1, <2>1, <3>2 DEF Least
      <4>3. Len(SubSeq(value, 1, Size(key) - 1)) = Size(key) - 1
        BY <1>1, <2>1, <3>2
      <4>4. QED
        BY <2>1, <3>2, <4>1, <4>2, <4>3
    <3>3. CASE ~(Len(value) < Size(key)) /\ key \notin Loose
      <4>1. v.ok = FALSE /\ v.dst = c[key]
        BY <2>2, <3>3 DEF Refused
      <4>2. QED
        BY <3>3, <4>1
    <3>4. QED
      BY <3>1, <3>2, <3>3
  <2>4. key \in WatchKeys /\ key \notin Flags \cup DaemonKeys /\ key # "is_active"
    BY <1>6, KeysDiffer DEF Strict, Loose, DaemonKeys, DaemonFlags, DbKeys
  <2>5. Acceptable(key, value) <=> key \in Loose \/ Len(value) < Size(key)
    BY <1>6, <2>4, KeysDiffer DEF Acceptable, Ignored, Size, DaemonKeys
  <2>6. v.ok => Meaning(key, value) = v.dst
    <3>1. CASE key \in Strict
      <4>1. Meaning(key, value) = value /\ key \notin Loose
        BY <3>1, KeysDiffer, MeaningOfKind
      <4>2. QED
        BY <4>1, <2>3
    <3>2. CASE key \in Loose
      <4>1. Meaning(key, value) = SubSeq(value, 1, Least(Len(value), Size(key) - 1))
        BY <3>2, MeaningOfKind
      <4>2. QED
        BY <4>1, <2>3
    <3>3. QED
      BY <1>6, <3>1, <3>2
  <2>7. r.ok = v.ok /\ r.config = [c EXCEPT ![key] = v.dst]
    <3>1. r = Stored(c, key, v)
      BY <1>3, <2>4 DEF WatchHandler
    <3> HIDE DEF r, v, key
    <3>2. QED
      BY <3>1 DEF Stored
  <2>8. Len(v.dst) < Size(key)
    BY <2>3, <1>6 DEF IsWatch
  <2>9. key = "filename" => v.dst \in DOMAIN Basename \cup {""}
    <3>1. key = "filename" => key \notin Loose /\ Size(key) = CFG_SZ_MAX
      BY KeysDiffer DEF Size
    <3>2. key = "filename" => c[key] \in DOMAIN Basename \cup {""}
      BY DEF IsWatch
    <3>3. key = "filename" => v = IF fits THEN Took(value) ELSE Refused(c[key])
      BY <2>2, <3>1
    <3> HIDE DEF key, value, v, fits
    <3>4. v = (IF fits THEN Took(value) ELSE Refused(c[key]))
            => v.dst = IF fits THEN value ELSE c[key]
      BY DEF Took, Refused
    <3>5. QED
      BY <1>2, <3>2, <3>3, <3>4
  <2>10. v.ok <=> key \in Loose \/ Len(value) < Size(key)
    BY <2>3
  <2> HIDE DEF key, value, r, v
  <2>11. \A k \in WatchKeys \cup {"is_active"} : r.config[k] = IF k = key THEN v.dst ELSE c[k]
    BY <2>7, <2>4 DEF IsWatch
  <2>12. IsWatch(r.config)
    <3>1. r.config = [k \in WatchKeys \cup {"is_active"} |-> r.config[k]]
      BY <2>7 DEF IsWatch
    <3>2. QED
      BY <1>6, <2>4, <2>8, <2>9, <2>11, <3>1, KeysDiffer DEF IsWatch
  <2>13. QED
    BY <2>4, <2>5, <2>6, <2>7, <2>10, <2>11, <2>12 DEF key, value, r
<1>7. QED
  BY <1>4, <1>5, <1>6, KeysDiffer

\* A pair of a daemon's file.
LEMMA DaemonHandlerStores ==
    ASSUME NEW c, IsDaemon(c), NEW pair
    PROVE  LET key == pair[1]
               value == pair[2]
               r == Handle("daemon_handler", c, pair)
           IN  /\ r.ok <=> key \in DaemonKeys /\ Acceptable(key, value)
               /\ r.ok => \A k \in DaemonKeys : r.config[k] = IF k = key THEN Meaning(key, value) ELSE c[k]
               /\ IsDaemon(r.config)
<1> DEFINE key == pair[1]
<1> DEFINE value == pair[2]
<1> DEFINE r == Handle("daemon_handler", c, pair)
<1> DEFINE v == DaemonValue(c[key], key, value)
<1>1. r = DaemonHandler(c, key, value)
  BY DEF Handle
<1>2. CASE key \notin DaemonKeys
  <2>1. r.ok = FALSE /\ r.config = c
    BY <1>1, <1>2 DEF DaemonHandler, DaemonKeys
  <2>2. QED
    BY <1>2, <2>1
<1>3. CASE key \in DaemonKeys
  <2>1. key \notin WatchKeys \cup Ignored
    BY <1>3, KeysDiffer DEF DaemonKeys, DaemonFlags, Ignored
  <2>2. v.ok <=> Acceptable(key, value)
    BY <1>3, <2>1, FlagsAreBoolean, NumbersAreClamped, KeysDiffer DEF DaemonValue, Acceptable, DaemonKeys
  <2>3. v.ok => v.dst = Meaning(key, value)
    BY <1>3, FlagsAreBoolean, NumbersAreClamped, KeysDiffer, MeaningOfKind DEF DaemonValue
  <2>4. /\ key \in DaemonFlags => v.dst \in BOOLEAN
        /\ key = "db_timeout" => v.dst \in 0 .. SHRT_MAX
    BY <1>3, FlagsAreBoolean, NumbersAreClamped, KeysDiffer DEF DaemonValue, IsDaemon
  <2>5. r.ok = v.ok /\ r.config = [c EXCEPT ![key] = v.dst]
    <3>1. r = Stored(c, key, v)
      BY <1>1, <1>3 DEF DaemonHandler, DaemonKeys
    <3> HIDE DEF r, v, key
    <3>2. QED
      BY <3>1 DEF Stored
  <2> HIDE DEF key, value, r, v
  <2>6. \A k \in DaemonKeys : r.config[k] = IF k = key THEN v.dst ELSE c[k]
    BY <2>5, <1>3 DEF IsDaemon
  <2>7. IsDaemon(r.config)
    <3>1. r.config = [k \in DaemonKeys |-> r.config[k]]
      BY <2>5 DEF IsDaemon
    <3>2. QED
      BY <2>4, <2>6, <3>1 DEF IsDaemon, DaemonKeys
  <2>8. QED
    BY <1>3, <2>2, <2>3, <2>5, <2>6, <2>7 DEF key, value, r
<1>4. QED
  BY <1>2, <1>3

-----------------------------------------------------------------------------
(* The files.                                                              *)

\* A watch's file is good if it is well-formed, and what it says is then stored; the
\* struct keeps its type in any case.
LEMMA WatchParsed ==
    ASSUME NEW c, IsWatch(c), NEW f \in Files, NEW text \in Texts[f]
    PROVE  LET r == ParseWatch(text, c) IN
           /\ r.ok <=> WellFormed(text, WatchKeys \cup Ignored)
           /\ r.ok => Holds(r.config, text, WatchKeys, c)
           /\ IsWatch(r.config)
           /\ r.config["is_active"] = c["is_active"]
<1> DEFINE valid == WatchKeys \cup Ignored
<1> DEFINE H(config, pair) == Handle("watch_handler", config, pair)
<1>1. text \in IniTexts /\ Len(text) \in Nat
  BY TextsAssumption DEF IniTexts
<1>0. PICK p : Reads(p, text, "watch_handler", c)
  BY <1>1, ParseFacts, Zenon
<1>2. /\ ParseWatch(text, c) = p[Len(text)]
      /\ p[0] = Unread(c)
      /\ \A n \in 1 .. Len(text) : p[n] = AndThen(p[n - 1], H(p[n - 1].config, text[n]))
  BY <1>0, Zenon DEF ParseWatch, Reads
<1> DEFINE S == {n \in 0 .. Len(text) :
                    IsWatch(p[n].config) /\ p[n].config["is_active"] = c["is_active"]}
<1>3. \A n \in 1 .. Len(text) :
        /\ p[n].ok <=> p[n - 1].ok /\ H(p[n - 1].config, text[n]).ok
        /\ p[n].config = H(p[n - 1].config, text[n]).config
  <2> HIDE DEF H
  <2> SUFFICES ASSUME NEW n \in 1 .. Len(text)
               PROVE  /\ p[n].ok <=> p[n - 1].ok /\ H(p[n - 1].config, text[n]).ok
                      /\ p[n].config = H(p[n - 1].config, text[n]).config
    OBVIOUS
  <2> DEFINE parse == p[n - 1]
  <2> DEFINE r == H(p[n - 1].config, text[n])
  <2>1. p[n] = AndThen(parse, r)
    BY <1>2
  <2> HIDE DEF parse, r
  <2>2. (p[n].ok <=> parse.ok /\ r.ok) /\ p[n].config = r.config
    BY <2>1, BothAccepted
  <2>3. QED
    BY <2>2 DEF parse, r
<1>4. p[0].ok = TRUE /\ p[0].config = c
  BY <1>2 DEF Unread
<1>5. \A n \in 0 .. Len(text) : n \in S
  <2>1. 0 \in S
    BY <1>1, <1>4
  <2>2. ASSUME NEW n \in 1 .. Len(text), n - 1 \in S PROVE n \in S
    <3>1. IsWatch(p[n - 1].config)
      BY <2>2
    <3>2. /\ IsWatch(H(p[n - 1].config, text[n]).config)
          /\ H(p[n - 1].config, text[n]).config["is_active"] = p[n - 1].config["is_active"]
      BY <3>1, WatchHandlerStores
    <3> HIDE DEF H
    <3>3. QED
      BY <1>1, <1>3, <2>2, <3>2
  <2> HIDE DEF S
  <2>3. QED
    BY <1>1, <2>1, <2>2, UpTo
<1>6. Parses(p, text, WatchKeys, valid, c)
  <2>1. ASSUME NEW n \in 1 .. Len(text)
        PROVE  /\ p[n].ok <=> p[n - 1].ok /\ text[n][1] \in valid /\ Acceptable(text[n][1], text[n][2])
               /\ p[n].ok => \A key \in WatchKeys :
                    p[n].config[key] = IF key = text[n][1] THEN Meaning(key, text[n][2])
                                       ELSE p[n - 1].config[key]
    <3>1. n - 1 \in S
      BY <1>1, <1>5
    <3>2. IsWatch(p[n - 1].config)
      BY <3>1
    <3>3. LET r == H(p[n - 1].config, text[n]) IN
          /\ r.ok <=> text[n][1] \in valid /\ Acceptable(text[n][1], text[n][2])
          /\ r.ok => \A k \in WatchKeys : r.config[k] = IF k = text[n][1] THEN Meaning(text[n][1], text[n][2])
                                                        ELSE p[n - 1].config[k]
      BY <3>2, WatchHandlerStores
    <3> HIDE DEF H, valid
    <3>4. QED
      BY <1>3, <3>3
  <2>2. QED
    BY <1>4, <2>1 DEF Parses
<1>7. Len(text) \in S
  BY <1>1, <1>5
<1>8. QED
  BY <1>1, <1>2, <1>6, <1>7, ParsesRight

\* A daemon's file likewise; p is its parse.
LEMMA DaemonParse ==
    ASSUME NEW c, IsDaemon(c), NEW text \in IniTexts
    PROVE  \E p : /\ ParseDaemon(text, c) = p[Len(text)]
                  /\ \A n \in 0 .. Len(text) : IsDaemon(p[n].config)
                  /\ p[0].config = c
                  /\ Parses(p, text, DaemonKeys, DaemonKeys, c)
<1> DEFINE H(config, pair) == Handle("daemon_handler", config, pair)
<1>1. Len(text) \in Nat
  BY DEF IniTexts
<1>0. PICK p : Reads(p, text, "daemon_handler", c)
  BY ParseFacts, Zenon
<1>2. /\ ParseDaemon(text, c) = p[Len(text)]
      /\ p[0] = Unread(c)
      /\ \A n \in 1 .. Len(text) : p[n] = AndThen(p[n - 1], H(p[n - 1].config, text[n]))
  BY <1>0, Zenon DEF ParseDaemon, Reads
<1> DEFINE S == {n \in 0 .. Len(text) : IsDaemon(p[n].config)}
<1>3. \A n \in 1 .. Len(text) :
        /\ p[n].ok <=> p[n - 1].ok /\ H(p[n - 1].config, text[n]).ok
        /\ p[n].config = H(p[n - 1].config, text[n]).config
  <2> HIDE DEF H
  <2> SUFFICES ASSUME NEW n \in 1 .. Len(text)
               PROVE  /\ p[n].ok <=> p[n - 1].ok /\ H(p[n - 1].config, text[n]).ok
                      /\ p[n].config = H(p[n - 1].config, text[n]).config
    OBVIOUS
  <2> DEFINE parse == p[n - 1]
  <2> DEFINE r == H(p[n - 1].config, text[n])
  <2>1. p[n] = AndThen(parse, r)
    BY <1>2
  <2> HIDE DEF parse, r
  <2>2. (p[n].ok <=> parse.ok /\ r.ok) /\ p[n].config = r.config
    BY <2>1, BothAccepted
  <2>3. QED
    BY <2>2 DEF parse, r
<1>4. p[0].ok = TRUE /\ p[0].config = c
  BY <1>2 DEF Unread
<1>5. \A n \in 0 .. Len(text) : n \in S
  <2>1. 0 \in S
    BY <1>1, <1>4
  <2>2. ASSUME NEW n \in 1 .. Len(text), n - 1 \in S PROVE n \in S
    <3>1. IsDaemon(H(p[n - 1].config, text[n]).config)
      BY <2>2, DaemonHandlerStores
    <3> HIDE DEF H
    <3>2. QED
      BY <1>1, <1>3, <2>2, <3>1
  <2> HIDE DEF S
  <2>3. QED
    BY <1>1, <2>1, <2>2, UpTo
<1>6. Parses(p, text, DaemonKeys, DaemonKeys, c)
  <2>1. ASSUME NEW n \in 1 .. Len(text)
        PROVE  /\ p[n].ok <=> p[n - 1].ok /\ text[n][1] \in DaemonKeys /\ Acceptable(text[n][1], text[n][2])
               /\ p[n].ok => \A key \in DaemonKeys :
                    p[n].config[key] = IF key = text[n][1] THEN Meaning(key, text[n][2])
                                       ELSE p[n - 1].config[key]
    <3>1. n - 1 \in S
      BY <1>1, <1>5
    <3>2. IsDaemon(p[n - 1].config)
      BY <3>1
    <3>3. LET r == H(p[n - 1].config, text[n]) IN
          /\ r.ok <=> text[n][1] \in DaemonKeys /\ Acceptable(text[n][1], text[n][2])
          /\ r.ok => \A k \in DaemonKeys : r.config[k] = IF k = text[n][1] THEN Meaning(text[n][1], text[n][2])
                                                         ELSE p[n - 1].config[k]
      <4> DEFINE config == p[n - 1].config
      <4> DEFINE pair == text[n]
      <4> HIDE DEF config, pair
      <4>1. IsDaemon(config)
        BY <3>2 DEF config
      <4>2. LET r == Handle("daemon_handler", config, pair) IN
            /\ r.ok <=> pair[1] \in DaemonKeys /\ Acceptable(pair[1], pair[2])
            /\ r.ok => \A k \in DaemonKeys :
                  r.config[k] = IF k = pair[1] THEN Meaning(pair[1], pair[2]) ELSE config[k]
        BY <4>1, DaemonHandlerStores
      <4>3. QED
        BY <4>2, Zenon DEF config, pair
    <3> HIDE DEF H
    <3>4. QED
      BY <1>3, <3>3
  <2>2. QED
    BY <1>4, <2>1 DEF Parses
<1>7. QED
  BY <1>2, <1>4, <1>5, <1>6

\* kfmon.ini and kfmon.user.ini together, as one text.
LEMMA DaemonParsed ==
    ASSUME NEW c, IsDaemon(c), NEW one \in IniTexts, NEW two \in IniTexts
    PROVE  LET r == ParseDaemon(one, c)
               q == ParseDaemon(two, r.config)
           IN  /\ r.ok /\ q.ok <=> WellFormed(one \o two, DaemonKeys)
               /\ r.ok /\ q.ok => Holds(q.config, one \o two, DaemonKeys, c)
               /\ IsDaemon(q.config)
<1> DEFINE M == Len(one)
<1> DEFINE N == Len(two)
<1> DEFINE text == one \o two
<1>1. M \in Nat /\ N \in Nat
  BY DEF IniTexts
<1>2. PICK p : /\ ParseDaemon(one, c) = p[M]
               /\ \A n \in 0 .. M : IsDaemon(p[n].config)
               /\ p[0].config = c
               /\ Parses(p, one, DaemonKeys, DaemonKeys, c)
  BY DaemonParse
<1>3. IsDaemon(p[M].config)
  BY <1>1, <1>2
<1>4. PICK q : /\ ParseDaemon(two, p[M].config) = q[N]
               /\ \A n \in 0 .. N : IsDaemon(q[n].config)
               /\ q[0].config = p[M].config
               /\ Parses(q, two, DaemonKeys, DaemonKeys, p[M].config)
  BY <1>3, DaemonParse
<1> DEFINE g == [n \in 0 .. M + N |->
                    IF n <= M THEN p[n] ELSE AndThen(p[M], q[n - M])]
<1>5. /\ text \in IniTexts /\ Len(text) = M + N
      /\ \A n \in 1 .. M + N : text[n] = IF n <= M THEN one[n] ELSE two[n - M]
  BY <1>1 DEF IniTexts
<1>6. /\ \A n \in 0 .. M : g[n] = p[n]
      /\ \A n \in 0 .. N : g[M + n].config = q[n].config /\ (g[M + n].ok <=> p[M].ok /\ q[n].ok)
  <2>1. \A n \in 0 .. M : g[n] = p[n]
    BY <1>1
  <2>2. ASSUME NEW n \in 1 .. N
        PROVE  g[M + n].config = q[n].config /\ (g[M + n].ok <=> p[M].ok /\ q[n].ok)
    <3>1. M + n \in 0 .. M + N /\ ~(M + n <= M) /\ (M + n) - M = n
      BY <1>1
    <3>2. g[M + n] = AndThen(p[M], q[n])
      BY <3>1
    <3> DEFINE parse == p[M]
    <3> DEFINE r == q[n]
    <3> DEFINE both == g[M + n]
    <3>3. both = AndThen(parse, r)
      BY <3>2
    <3> HIDE DEF both, parse, r
    <3>4. (both.ok <=> parse.ok /\ r.ok) /\ both.config = r.config
      BY <3>3, BothAccepted
    <3>5. QED
      BY <3>4 DEF both, parse, r
  <2> HIDE DEF g
  <2>3. g[M + 0].config = q[0].config /\ (g[M + 0].ok <=> p[M].ok /\ q[0].ok)
    <3>1. g[M + 0] = p[M] /\ q[0].ok = TRUE
      BY <1>1, <1>4, <2>1 DEF Parses
    <3>2. QED
      BY <1>4, <3>1
  <2>4. \A n \in 0 .. N : n = 0 \/ n \in 1 .. N
    BY <1>1
  <2>5. QED
    BY <2>1, <2>2, <2>3, <2>4
<1> HIDE DEF g
<1>7. Parses(g, text, DaemonKeys, DaemonKeys, c)
  <2>1. g[0] = p[0]
    BY <1>1, <1>6
  <2>2. ASSUME NEW n \in 1 .. M + N
        PROVE  /\ g[n].ok <=> g[n - 1].ok /\ text[n][1] \in DaemonKeys /\ Acceptable(text[n][1], text[n][2])
               /\ g[n].ok => \A key \in DaemonKeys :
                    g[n].config[key] = IF key = text[n][1] THEN Meaning(key, text[n][2])
                                       ELSE g[n - 1].config[key]
    <3>1. CASE n <= M
      <4>1. g[n] = p[n] /\ g[n - 1] = p[n - 1] /\ text[n] = one[n] /\ n \in 1 .. M
        BY <1>1, <1>5, <1>6, <3>1
      <4> HIDE DEF text
      <4>2. QED
        BY <1>2, <4>1 DEF Parses
    <3>2. CASE ~(n <= M)
      <4> DEFINE m == n - M
      <4>1. m \in 1 .. N /\ m - 1 \in 0 .. N /\ m \in 0 .. N /\ M + m = n /\ M + (m - 1) = n - 1
        BY <1>1, <3>2
      <4> HIDE DEF m
      <4>2. /\ g[n].config = q[m].config /\ (g[n].ok <=> p[M].ok /\ q[m].ok)
            /\ g[n - 1].config = q[m - 1].config /\ (g[n - 1].ok <=> p[M].ok /\ q[m - 1].ok)
        BY <1>6, <4>1
      <4>3. text[n] = two[m]
        BY <1>1, <1>5, <3>2, <4>1 DEF m
      <4> HIDE DEF text
      <4>4. QED
        BY <1>4, <4>1, <4>2, <4>3 DEF Parses
    <3>3. QED
      BY <3>1, <3>2
  <2> HIDE DEF text
  <2>3. QED
    BY <1>2, <1>5, <2>1, <2>2 DEF Parses
<1>8. g[M + N].config = q[N].config /\ (g[M + N].ok <=> p[M].ok /\ q[N].ok) /\ IsDaemon(q[N].config)
  BY <1>1, <1>4, <1>6
<1> HIDE DEF text
<1>9. /\ g[M + N].ok <=> WellFormed(text, DaemonKeys)
      /\ g[M + N].ok => Holds(g[M + N].config, text, DaemonKeys, c)
  BY <1>5, <1>7, ParsesRight
<1>10. QED
  BY <1>2, <1>4, <1>8, <1>9 DEF text

-----------------------------------------------------------------------------
(* The inductive invariant.                                                *)

Phases == {"load", "loaded", "aborted", "update", "setup", "idle", "session", "undefined"}
Walks == [phase : Phases, k : Nat, count : 0 .. WATCH_MAX, kept : SUBSET Slots,
          skipped : SUBSET Slots, notify : BOOLEAN]
Disks == [main : IniTexts, user : IniTexts, watches : [Files -> IniTexts], edited : BOOLEAN]

DiskTyped == disk \in Disks /\ \A f \in Files : disk.watches[f] \in Texts[f]

SlotsTyped ==
    /\ watchConfig = [w \in Slots |-> watchConfig[w]]
    /\ \A w \in Slots : IsWatch(watchConfig[w])

WalkTyped ==
    /\ walk \in Walks
    /\ walk.k \in IF walk.phase \in {"load", "loaded", "aborted", "update", "undefined"}
                  THEN 1 .. FILES + 1 ELSE 0 .. WATCH_MAX

Typed == DiskTyped /\ IsDaemon(daemonConfig) /\ SlotsTyped /\ WalkTyped

\* A free slot is blank, and in a load the free slots are those from walk.count on.
BlankInv ==
    /\ \A w \in Slots \ Active : watchConfig[w] = NoWatch
    /\ walk.phase = "load" =>
        daemonConfig = NoDaemon /\ \A w \in Slots : w >= walk.count => w \notin Active

\* The keys of a watch that may be older than its config file.
Stale(watch) ==
    IF walk.phase \in {"load", "loaded"} \/ watch.do_db_update THEN {} ELSE DbKeys

\* One of the files spells the watch out.
Written(watch, stale) ==
    /\ Complete(watch)
    /\ \E f \in Files :
        /\ WellFormed(disk.watches[f], WatchKeys \cup Ignored)
        /\ Holds(watch, disk.watches[f], WatchKeys \ stale, NoWatch)

\* So it is for the watches that were loaded, and for those an update has kept so far,
\* unless it found them running.
WrittenInv ==
    \A w \in Active \ walk.skipped :
        \/ walk.phase \in {"load", "loaded"}
        \/ walk.phase = "update" /\ w \in walk.kept
        \/ UpdateDone
        => Written(watchConfig[w], Stale(watchConfig[w]))

IInv == Typed /\ BlankInv /\ DaemonAsWritten /\ WrittenInv

LEMMA Blank ==
    /\ IsWatch(NoWatch) /\ NoWatch["is_active"] = FALSE
    /\ IsDaemon(NoDaemon)
<1>1. /\ WatchKeys \cup {"is_active"} = Strict \cup Loose \cup Flags \cup {"is_active"}
      /\ \A key \in Strict \cup Loose : key \notin Flags \cup {"is_active"}
  BY DEF WatchKeys, Strict, Loose, Flags, DbKeys
<1>2. \A key \in Strict \cup Loose : NoWatch[key] = ""
  BY <1>1 DEF NoWatch
<1>3. \A key \in Flags \cup {"is_active"} : NoWatch[key] = FALSE
  BY <1>1 DEF NoWatch
<1>4. NoWatch = [key \in WatchKeys \cup {"is_active"} |-> NoWatch[key]]
  BY DEF NoWatch
<1>5. \A key : Size(key) > 0
  BY DEF Size
<1>6. \A key \in Strict \cup Loose : Len(NoWatch[key]) < Size(key)
  BY <1>2, <1>5, StringsAssumption DEF Size
<1>7. NoWatch["filename"] = ""
  BY <1>2 DEF Strict
<1>8. IsWatch(NoWatch)
  BY <1>3, <1>4, <1>6, <1>7 DEF IsWatch
<1>9. IsDaemon(NoDaemon)
  BY DEF IsDaemon, NoDaemon, DaemonKeys, DaemonFlags
<1>10. QED
  BY <1>3, <1>8, <1>9

\* The configs that are stored in a slot have the type of one.
LEMMA StoredAreWatches ==
    ASSUME NEW c, IsWatch(c), NEW watch, IsWatch(watch)
    PROVE  /\ IsWatch(Activated(c)) /\ Activated(c)["is_active"] = TRUE
           /\ \A key \in WatchKeys : Activated(c)[key] = c[key]
           /\ IsWatch(Merged(watch, c)) /\ Merged(watch, c)["is_active"] = watch["is_active"]
           /\ \A key \in WatchKeys :
                Merged(watch, c)[key] =
                    IF key = "filename" \/ (key \in DbKeys /\ ~c.do_db_update) THEN watch[key] ELSE c[key]
<1> DEFINE a == Activated(c)
<1> DEFINE m == Merged(watch, c)
<1> DEFINE Keys == WatchKeys \cup {"is_active"}
<1>1. \A key \in Keys : a[key] = IF key = "is_active" THEN TRUE ELSE c[key]
  BY DEF Activated, IsWatch
<1>2. a = [key \in Keys |-> a[key]]
  BY DEF Activated, IsWatch
<1>3. DOMAIN watch = Keys
  <2> DEFINE other == [key \in Keys |-> watch[key]]
  <2>1. watch = other /\ DOMAIN other = Keys
    BY DEF IsWatch
  <2> HIDE DEF other
  <2>2. QED
    BY <2>1
<1>4. \A key \in Keys : m[key] = IF key \in {"filename", "is_active"} \/ (key \in DbKeys /\ ~c.do_db_update)
                                 THEN watch[key] ELSE c[key]
  BY <1>3 DEF Merged
<1>5. m = [key \in Keys |-> m[key]]
  BY <1>3 DEF Merged
<1>6. /\ Flags \cup {"is_active"} \cup Strict \cup Loose \subseteq Keys
      /\ "is_active" \notin Strict \cup Loose /\ "filename" \in Keys /\ "filename" # "is_active"
      /\ DbKeys \cap (Flags \cup {"is_active"}) = {} /\ "filename" \notin Flags
  BY DEF WatchKeys, Strict, Loose, Flags, DbKeys
<1> HIDE DEF a, m
<1>7. IsWatch(a)
  BY <1>1, <1>2, <1>6 DEF IsWatch
<1>8. IsWatch(m)
  BY <1>4, <1>5, <1>6 DEF IsWatch
<1>9. \A key \in WatchKeys : key # "is_active"
  BY KeysDiffer
<1>10. QED
  BY <1>1, <1>4, <1>7, <1>8, <1>9 DEF a, m

LEMMA IInvInit == Init => IInv
<1> SUFFICES ASSUME Init PROVE IInv
  OBVIOUS
<1>1. DiskTyped
  BY TextsAssumption DEF Init, DiskTyped, Disks
<1>2. \A w \in Slots : watchConfig[w] = NoWatch
  BY DEF Init
<1>3. Active = {}
  BY <1>2, Blank DEF Active
<1>4. SlotsTyped /\ IsDaemon(daemonConfig)
  BY <1>2, Blank DEF Init, SlotsTyped
<1>5. /\ WalkTyped /\ walk.phase = "load"
  <2>1. walk = Walk("load", 1)
    BY DEF Init
  <2>2. Walk("load", 1) \in Walks
    BY DEF Walk, Walks, Phases
  <2>3. walk.phase = "load" /\ walk.k = 1
    BY <2>1 DEF Walk
  <2>4. QED
    BY <2>1, <2>2, <2>3 DEF WalkTyped
<1>6. BlankInv
  BY <1>2, <1>3, <1>5 DEF Init, BlankInv
<1>7. QED
  BY <1>1, <1>3, <1>4, <1>5, <1>6 DEF IInv, Typed, DaemonAsWritten, WrittenInv

-----------------------------------------------------------------------------
(* The steps, first what they have in common.                              *)

LEMMA WalkFacts ==
    ASSUME WalkTyped
    PROVE  /\ walk = [phase |-> walk.phase, k |-> walk.k, count |-> walk.count, kept |-> walk.kept,
                      skipped |-> walk.skipped, notify |-> walk.notify]
           /\ walk.phase \in Phases /\ walk.k \in Nat /\ walk.count \in 0 .. WATCH_MAX
           /\ walk.kept \subseteq Slots /\ walk.skipped \subseteq Slots /\ walk.notify \in BOOLEAN
           /\ walk.phase \in {"load", "update"} /\ walk.k <= FILES => walk.k \in Files
           /\ walk.count < WATCH_MAX => walk.count \in Slots
BY DEF WalkTyped, Walks, Slots, Files

\* The walk goes on to the next file.
LEMMA NextFile ==
    ASSUME WalkTyped, walk.phase \in {"load", "update"}, walk.k <= FILES,
           NEW count \in 0 .. WATCH_MAX, NEW kept \in SUBSET Slots, NEW skipped \in SUBSET Slots,
           NEW notify \in BOOLEAN,
           walk' = [phase |-> walk.phase, k |-> walk.k + 1, count |-> count, kept |-> kept,
                    skipped |-> skipped, notify |-> notify]
    PROVE  /\ WalkTyped'
           /\ walk'.phase = walk.phase /\ walk'.k = walk.k + 1 /\ walk'.count = count
           /\ walk'.kept = kept /\ walk'.skipped = skipped /\ walk'.notify = notify
<1>1. walk.phase \in Phases /\ walk.k \in 1 .. FILES
  BY DEF WalkTyped, Walks
<1>2. walk' \in Walks
  BY <1>1 DEF Walks
<1>3. walk'.phase = walk.phase /\ walk'.k = walk.k + 1
  OBVIOUS
<1>4. WalkTyped'
  BY <1>1, <1>2, <1>3 DEF WalkTyped
<1>5. QED
  BY <1>4

\* Another phase begins.
LEMMA NextPhase ==
    ASSUME NEW phase \in Phases, NEW k \in Nat, walk' = Walk(phase, k),
           k \in IF phase \in {"load", "loaded", "aborted", "update", "undefined"}
                 THEN 1 .. FILES + 1 ELSE 0 .. WATCH_MAX
    PROVE  /\ WalkTyped' /\ walk'.phase = phase /\ walk'.k = k
           /\ walk'.kept = {} /\ walk'.skipped = {} /\ walk'.count = 0
<1>1. walk' \in Walks
  BY DEF Walk, Walks
<1>2. walk'.phase = phase /\ walk'.k = k
  BY DEF Walk
<1>3. WalkTyped'
  BY <1>1, <1>2 DEF WalkTyped
<1>4. QED
  BY <1>3 DEF Walk

LEMMA OneSlot ==
    ASSUME SlotsTyped, NEW w \in Slots, NEW watch, IsWatch(watch), SetSlot(w, watch)
    PROVE  /\ SlotsTyped' /\ watchConfig'[w] = watch
           /\ \A v \in Slots : v # w => watchConfig'[v] = watchConfig[v]
           /\ Active' = IF watch.is_active THEN Active \cup {w} ELSE Active \ {w}
<1>1. watchConfig'[w] = watch
  BY DEF SetSlot, SlotsTyped
<1>2. \A v \in Slots : v # w => watchConfig'[v] = watchConfig[v]
  BY DEF SetSlot, SlotsTyped
<1>3. watchConfig' = [v \in Slots |-> watchConfig'[v]]
  BY DEF SetSlot, SlotsTyped
<1>4. SlotsTyped'
  BY <1>1, <1>2, <1>3 DEF SlotsTyped
<1>5. Active' = IF watch.is_active THEN Active \cup {w} ELSE Active \ {w}
  BY <1>1, <1>2 DEF Active
<1>6. QED
  BY <1>1, <1>2, <1>4, <1>5

LEMMA SameSlots ==
    ASSUME UNCHANGED watchConfig
    PROVE  Active' = Active /\ (SlotsTyped => SlotsTyped')
BY DEF Active, SlotsTyped

\* The file that is walked, once parsed.
LEMMA FileParsed ==
    ASSUME DiskTyped, walk.k \in Files
    PROVE  /\ IsWatch(Parsed.config) /\ Parsed.config["is_active"] = FALSE
           /\ Parsed.ok <=> WellFormed(disk.watches[walk.k], WatchKeys \cup Ignored)
           /\ Parsed.ok => Holds(Parsed.config, disk.watches[walk.k], WatchKeys, NoWatch)
<1> DEFINE text == disk.watches[walk.k]
<1>1. text \in Texts[walk.k]
  BY DEF DiskTyped
<1>2. Parsed = ParseWatch(text, NoWatch)
  BY DEF Parsed
<1> HIDE DEF text
<1>3. LET r == ParseWatch(text, NoWatch) IN
      /\ r.ok <=> WellFormed(text, WatchKeys \cup Ignored)
      /\ r.ok => Holds(r.config, text, WatchKeys, NoWatch)
      /\ IsWatch(r.config)
      /\ r.config["is_active"] = NoWatch["is_active"]
  BY <1>1, Blank, WatchParsed
<1>4. QED
  BY <1>2, <1>3, Blank, Zenon DEF text

\* A load parses into a blank slot.
LEMMA LoadParsed ==
    ASSUME BlankInv, WalkTyped, walk.phase = "load", walk.count < WATCH_MAX
    PROVE  watchConfig[walk.count] = NoWatch
BY WalkFacts DEF BlankInv, Slots

\* What the steps of an update may do to the list of the watches that are kept.
LEMMA KeepFacts ==
    ASSUME WalkTyped, Updating, NEW w \in Slots, NEW skipped \in SUBSET Slots,
           \E notify \in BOOLEAN : Keep(w, skipped, notify)
    PROVE  /\ WalkTyped'
           /\ \/ walk'.phase = "undefined"
              \/ /\ walk'.phase = "update" /\ walk'.k = walk.k + 1
                 /\ walk'.kept = walk.kept \cup {w} /\ walk'.skipped = walk.skipped \cup skipped
<1> PICK notify \in BOOLEAN : Keep(w, skipped, notify)
  OBVIOUS
<1>1. walk.phase = "update" /\ walk.k <= FILES
  BY DEF Updating
<1>2. CASE walk.count < WATCH_MAX
  <2>1. walk' = [phase |-> walk.phase, k |-> walk.k + 1, count |-> walk.count + 1,
                 kept |-> walk.kept \cup {w}, skipped |-> walk.skipped \cup skipped,
                 notify |-> walk.notify \/ notify]
    BY <1>2, WalkFacts DEF Keep
  <2>2. walk.count + 1 \in 0 .. WATCH_MAX
    BY <1>2, WalkFacts
  <2>3. QED
    BY <1>1, <2>1, <2>2, WalkFacts, NextFile
<1>3. CASE ~(walk.count < WATCH_MAX)
  <2>1. walk' = [walk EXCEPT !.phase = "undefined"]
    BY <1>3 DEF Keep
  <2>2. walk'.phase = "undefined" /\ walk'.k = walk.k /\ walk' \in Walks
    BY <2>1 DEF WalkTyped, Walks, Phases
  <2>3. QED
    BY <1>1, <2>2 DEF WalkTyped
<1>4. QED
  BY <1>2, <1>3

\* In a load just as well.
LEMMA LoadFileFacts ==
    ASSUME Typed, BlankInv, LoadFile
    PROVE  /\ walk.k \in Files /\ walk.phase = "load" /\ WalkTyped'
           /\ walk'.phase = "load" /\ walk'.k = walk.k + 1 /\ walk'.kept = walk.kept /\ walk'.skipped = walk.skipped
           /\ \/ /\ UNCHANGED watchConfig /\ walk'.count = walk.count
              \/ /\ walk.count \in Slots /\ SetSlot(walk.count, NoWatch) /\ walk'.count = walk.count
              \/ /\ walk.count \in Slots /\ SetSlot(walk.count, Activated(Parsed.config))
                 /\ walk'.count = walk.count + 1 /\ Parsed.ok /\ Complete(Parsed.config)
<1>1. WalkTyped /\ walk.phase = "load" /\ walk.k <= FILES
  BY DEF Typed, LoadFile
<1>2. walk.k \in Files /\ (walk.count < WATCH_MAX => walk.count \in Slots)
  BY <1>1, WalkFacts
<1>3. ASSUME NEW count \in 0 .. WATCH_MAX,
             walk' = [phase |-> walk.phase, k |-> walk.k + 1, count |-> count, kept |-> walk.kept,
                      skipped |-> walk.skipped, notify |-> walk.notify]
      PROVE  /\ WalkTyped' /\ walk'.phase = "load" /\ walk'.k = walk.k + 1
             /\ walk'.count = count /\ walk'.kept = walk.kept /\ walk'.skipped = walk.skipped
  BY <1>1, <1>3, WalkFacts, NextFile
<1>4. CASE walk' = [walk EXCEPT !.k = @ + 1]
  <2>1. walk' = [phase |-> walk.phase, k |-> walk.k + 1, count |-> walk.count, kept |-> walk.kept,
                 skipped |-> walk.skipped, notify |-> walk.notify]
    BY <1>1, <1>4, WalkFacts
  <2>2. WalkTyped' /\ walk'.phase = "load" /\ walk'.k = walk.k + 1 /\ walk'.count = walk.count
        /\ walk'.kept = walk.kept /\ walk'.skipped = walk.skipped
    BY <1>1, <1>3, <2>1, WalkFacts
  <2>3. \/ UNCHANGED watchConfig
        \/ walk.count \in Slots /\ SetSlot(walk.count, NoWatch)
        \/ walk'.count = walk.count + 1
    <3>1. \/ UNCHANGED watchConfig
          \/ walk.count < WATCH_MAX /\ SetSlot(walk.count, NoWatch)
          \/ walk' = [walk EXCEPT !.k = @ + 1, !.count = @ + 1]
      BY Zenon DEF LoadFile
    <3>2. walk' = [walk EXCEPT !.k = @ + 1, !.count = @ + 1] => walk'.count = walk.count + 1
      BY <1>1, WalkFacts
    <3>3. CASE UNCHANGED watchConfig
      BY <3>3
    <3>4. CASE walk.count < WATCH_MAX /\ SetSlot(walk.count, NoWatch)
      <4>1. walk.count \in Slots
        BY <1>2, <3>4
      <4>2. QED
        BY <3>4, <4>1
    <3>5. CASE walk' = [walk EXCEPT !.k = @ + 1, !.count = @ + 1]
      BY <3>2, <3>5
    <3>6. QED
      BY <3>1, <3>3, <3>4, <3>5
  <2>4. walk'.count # walk.count + 1
    BY <1>1, <2>2, WalkFacts
  <2>5. QED
    BY <1>1, <1>2, <2>2, <2>3, <2>4
<1>5. CASE /\ walk.count < WATCH_MAX
           /\ LET parsed == ParseWatch(disk.watches[walk.k], watchConfig[walk.count])
              IN  /\ parsed.ok /\ IsValid(parsed.config)
                  /\ SetSlot(walk.count, Activated(parsed.config))
                  /\ walk' = [walk EXCEPT !.k = @ + 1, !.count = @ + 1]
  <2>1. Parsed = ParseWatch(disk.watches[walk.k], watchConfig[walk.count])
    BY <1>1, <1>5, LoadParsed DEF Parsed
  <2>2. /\ Parsed.ok /\ IsValid(Parsed.config) /\ SetSlot(walk.count, Activated(Parsed.config))
        /\ walk' = [walk EXCEPT !.k = @ + 1, !.count = @ + 1]
    BY <1>5, <2>1, Zenon
  <2>3. walk' = [phase |-> walk.phase, k |-> walk.k + 1, count |-> walk.count + 1, kept |-> walk.kept,
                 skipped |-> walk.skipped, notify |-> walk.notify]
    BY <1>1, <2>2, WalkFacts
  <2>4. walk.count + 1 \in 0 .. WATCH_MAX
    BY <1>1, <1>5, WalkFacts
  <2>5. WalkTyped' /\ walk'.phase = "load" /\ walk'.k = walk.k + 1 /\ walk'.count = walk.count + 1
        /\ walk'.kept = walk.kept /\ walk'.skipped = walk.skipped
    BY <1>3, <2>3, <2>4
  <2>6. Complete(Parsed.config)
    BY <2>2 DEF IsValid
  <2>7. QED
    BY <1>1, <1>2, <1>5, <2>2, <2>5, <2>6
<1>6. QED
  BY <1>4, <1>5, Zenon DEF LoadFile

\* The steps of an update that change a slot, or go on to the next file.
UpdateFile == DiscardFile \/ NewFile \/ \E w \in Slots : RunningFile(w) \/ KnownFile(w)

\* The slot w gets what the file says, and is kept.
Stores(w, watch) ==
    /\ Parsed.ok /\ Complete(Parsed.config)
    /\ \/ w \notin Active /\ watch = Activated(Parsed.config)
       \/ /\ w \in Active /\ watchConfig[w].filename = Parsed.config.filename
          /\ watch = Merged(watchConfig[w], Parsed.config)
    /\ SetSlot(w, watch)
    /\ \/ walk'.phase = "undefined"
       \/ walk'.phase = "update" /\ walk'.kept = walk.kept \cup {w} /\ walk'.skipped = walk.skipped

LEMMA UpdateFileFacts ==
    ASSUME Typed, UpdateFile
    PROVE  /\ walk.k \in Files /\ walk.phase = "update" /\ WalkTyped'
           /\ walk'.phase \in {"update", "undefined"}
           /\ UNCHANGED <<disk, daemonConfig, programs, known>>
           /\ \/ /\ UNCHANGED watchConfig
                 /\ \/ walk'.phase = "undefined"
                    \/ walk'.kept = walk.kept /\ walk'.skipped = walk.skipped
                    \/ \E w \in Slots : /\ walk'.kept = walk.kept \cup {w}
                                        /\ walk'.skipped = walk.skipped \cup {w}
              \/ /\ \E w \in Slots : SetSlot(w, NoWatch)
                 /\ walk'.kept = walk.kept /\ walk'.skipped = walk.skipped
              \/ \E w \in Slots : \E watch : Stores(w, watch)
<1>1. WalkTyped /\ Updating /\ walk.phase = "update" /\ walk.k <= FILES
  BY DEF Typed, UpdateFile, DiscardFile, NewFile, RunningFile, KnownFile, Updating
<1>2. walk.k \in Files
  BY <1>1, WalkFacts
<1>3. UNCHANGED <<disk, daemonConfig, programs, known>>
  BY DEF UpdateFile, DiscardFile, NewFile, RunningFile, KnownFile, OnlyTheWatches
<1>4. ASSUME NEW notify \in BOOLEAN, walk' = [walk EXCEPT !.k = @ + 1, !.notify = notify]
      PROVE  /\ WalkTyped' /\ walk'.phase = "update" /\ walk'.kept = walk.kept
             /\ walk'.skipped = walk.skipped
  <2>1. walk' = [phase |-> walk.phase, k |-> walk.k + 1, count |-> walk.count, kept |-> walk.kept,
                 skipped |-> walk.skipped, notify |-> notify]
    BY <1>1, <1>4, WalkFacts
  <2>2. QED
    BY <1>1, <2>1, WalkFacts, NextFile
<1>5. ASSUME walk' = [walk EXCEPT !.k = @ + 1]
      PROVE  /\ WalkTyped' /\ walk'.phase = "update" /\ walk'.kept = walk.kept
             /\ walk'.skipped = walk.skipped
  <2>1. walk' = [walk EXCEPT !.k = @ + 1, !.notify = walk.notify] /\ walk.notify \in BOOLEAN
    BY <1>1, <1>5, WalkFacts
  <2>2. QED
    BY <1>4, <2>1
<1>6. CASE DiscardFile
  BY <1>2, <1>1, <1>3, <1>5, <1>6 DEF DiscardFile
<1>7. CASE NewFile
  <2>1. PICK free : free = {w \in Slots \ Active : IsFirst(w, Slots \ Active)}
                    /\ Parsed.ok
                    /\ \/ walk' = [walk EXCEPT !.k = @ + 1] /\ UNCHANGED watchConfig
                       \/ \E w \in free :
                            IF IsValid(Parsed.config)
                            THEN SetSlot(w, Activated(Parsed.config)) /\ Keep(w, {}, TRUE)
                            ELSE SetSlot(w, NoWatch) /\ walk' = [walk EXCEPT !.k = @ + 1]
    BY <1>7, Zenon DEF NewFile
  <2>2. CASE walk' = [walk EXCEPT !.k = @ + 1] /\ UNCHANGED watchConfig
    BY <1>2, <1>1, <1>3, <1>5, <2>2
  <2>3. ASSUME NEW w \in Slots \ Active, SetSlot(w, NoWatch), walk' = [walk EXCEPT !.k = @ + 1]
        PROVE  /\ WalkTyped' /\ walk'.phase = "update" /\ walk'.kept = walk.kept
               /\ walk'.skipped = walk.skipped
    BY <1>5, <2>3
  <2>4. ASSUME NEW w \in Slots \ Active, IsValid(Parsed.config),
               SetSlot(w, Activated(Parsed.config)), Keep(w, {}, TRUE)
        PROVE  WalkTyped' /\ walk'.phase \in {"update", "undefined"} /\ \E watch : Stores(w, watch)
    <3>1. Complete(Parsed.config)
      BY <2>4 DEF IsValid
    <3>2. /\ WalkTyped'
          /\ \/ walk'.phase = "undefined"
             \/ /\ walk'.phase = "update"
                /\ walk'.kept = walk.kept \cup {w} /\ walk'.skipped = walk.skipped
      <4>1. {} \in SUBSET Slots /\ walk.skipped \cup {} = walk.skipped /\ \E notify \in BOOLEAN : Keep(w, {}, notify)
        BY <2>4, Zenon
      <4>2. QED
        BY <1>1, <2>4, <4>1, KeepFacts, Zenon
    <3>3. Stores(w, Activated(Parsed.config))
      BY <2>1, <2>4, <3>1, <3>2 DEF Stores
    <3>4. QED
      BY <3>2, <3>3
  <2>5. QED
    BY <1>1, <1>2, <1>3, <2>1, <2>2, <2>3, <2>4
<1>8. ASSUME NEW w \in Slots, RunningFile(w)
      PROVE  /\ WalkTyped' /\ UNCHANGED watchConfig
             /\ \/ walk'.phase = "undefined"
                \/ /\ walk'.phase = "update"
                   /\ walk'.kept = walk.kept \cup {w} /\ walk'.skipped = walk.skipped \cup {w}
  <2>1. {w} \in SUBSET Slots /\ UNCHANGED watchConfig
    BY <1>8 DEF RunningFile
  <2>2. \E notify \in BOOLEAN : Keep(w, {w}, notify)
    BY <1>8, Zenon DEF RunningFile
  <2>3. QED
    BY <1>1, <2>1, <2>2, KeepFacts, Zenon
<1>9. ASSUME NEW w \in Slots, KnownFile(w)
      PROVE  /\ WalkTyped' /\ walk'.phase \in {"update", "undefined"}
             /\ \/ /\ SetSlot(w, NoWatch) /\ walk'.kept = walk.kept /\ walk'.skipped = walk.skipped
                \/ \E watch : Stores(w, watch)
  <2> DEFINE merged == Merged(watchConfig[w], Parsed.config)
  <2>1. /\ Parsed.ok /\ IsMatch(w, Parsed.config)
        /\ IF Complete(Parsed.config)
           THEN SetSlot(w, merged) /\ Keep(w, {}, merged # watchConfig[w])
           ELSE SetSlot(w, NoWatch) /\ walk' = [walk EXCEPT !.k = @ + 1, !.notify = TRUE]
    BY <1>9 DEF KnownFile
  <2>2. w \in Active /\ watchConfig[w].filename = Parsed.config.filename
    BY <2>1 DEF IsMatch, IsFirst
  <2>3. CASE Complete(Parsed.config)
    <3>1. \E notify \in BOOLEAN : Keep(w, {}, notify)
      BY <2>1, <2>3
    <3>2. /\ WalkTyped'
          /\ \/ walk'.phase = "undefined"
             \/ /\ walk'.phase = "update"
                /\ walk'.kept = walk.kept \cup {w} /\ walk'.skipped = walk.skipped
      <4>1. {} \in SUBSET Slots /\ walk.skipped \cup {} = walk.skipped
        OBVIOUS
      <4>2. QED
        BY <1>1, <3>1, <4>1, KeepFacts, Zenon
    <3>3. Stores(w, merged)
      BY <2>1, <2>2, <2>3, <3>2 DEF Stores
    <3>4. QED
      BY <3>2, <3>3
  <2>4. CASE ~Complete(Parsed.config)
    BY <1>4, <2>1, <2>4
  <2>5. QED
    BY <2>3, <2>4
<1>10. QED
  BY <1>1, <1>2, <1>3, <1>6, <1>7, <1>8, <1>9 DEF UpdateFile

\* A config that is stored has what its file says.
LEMMA ActivatedWritten ==
    ASSUME DiskTyped, walk.k \in Files, Parsed.ok, Complete(Parsed.config), NEW stale
    PROVE  Written(Activated(Parsed.config), stale)
<1> DEFINE c == Parsed.config
<1> DEFINE a == Activated(c)
<1>1. /\ WellFormed(disk.watches[walk.k], WatchKeys \cup Ignored)
      /\ Holds(c, disk.watches[walk.k], WatchKeys, NoWatch) /\ IsWatch(c)
  BY FileParsed
<1>2. \A key \in WatchKeys : a[key] = c[key]
  BY <1>1, StoredAreWatches
<1>3. Strict \cup DbKeys \cup {"do_db_update"} \subseteq WatchKeys
  BY DEF WatchKeys, Loose, Flags
<1> HIDE DEF a, c
<1>4. Complete(a)
  BY <1>2, <1>3 DEF Complete, c
<1>5. Holds(a, disk.watches[walk.k], WatchKeys \ stale, NoWatch)
  BY <1>1, <1>2 DEF Holds
<1>6. QED
  BY <1>1, <1>4, <1>5 DEF Written, a, c

LEMMA MergedWritten ==
    ASSUME DiskTyped, walk.k \in Files, Parsed.ok, Complete(Parsed.config),
           NEW watch, IsWatch(watch), watch.filename = Parsed.config.filename
    PROVE  LET m == Merged(watch, Parsed.config) IN Written(m, IF m.do_db_update THEN {} ELSE DbKeys)
<1> DEFINE c == Parsed.config
<1> DEFINE m == Merged(watch, c)
<1>1. /\ WellFormed(disk.watches[walk.k], WatchKeys \cup Ignored)
      /\ Holds(c, disk.watches[walk.k], WatchKeys, NoWatch) /\ IsWatch(c)
  BY FileParsed
<1>2. \A key \in WatchKeys : m[key] = IF key = "filename" \/ (key \in DbKeys /\ ~c.do_db_update)
                                      THEN watch[key] ELSE c[key]
  BY <1>1, StoredAreWatches
<1>3. /\ Strict \cup DbKeys \cup {"do_db_update"} \subseteq WatchKeys
      /\ Strict \cap DbKeys = {} /\ "do_db_update" \notin DbKeys /\ "do_db_update" # "filename"
      /\ "filename" \notin DbKeys
  BY DEF WatchKeys, Loose, Flags, Strict, DbKeys
<1>4. watch["filename"] = c["filename"]
  OBVIOUS
<1> HIDE DEF m, c
<1>5. \A key \in WatchKeys : key \notin DbKeys \/ c.do_db_update => m[key] = c[key]
  BY <1>2, <1>4
<1>6. m.do_db_update = c.do_db_update
  BY <1>3, <1>5
<1>7. Complete(m)
  BY <1>3, <1>5, <1>6 DEF Complete, c
<1>8. Holds(m, disk.watches[walk.k], WatchKeys \ (IF m.do_db_update THEN {} ELSE DbKeys), NoWatch)
  BY <1>1, <1>5, <1>6 DEF Holds
<1>9. QED
  BY <1>1, <1>7, <1>8 DEF Written, m, c

\* When the settings of watch w must be those of a file.
Due(w) ==
    /\ w \in Active \ walk.skipped
    /\ \/ walk.phase \in {"load", "loaded"}
       \/ walk.phase = "update" /\ w \in walk.kept
       \/ UpdateDone

LEMMA WrittenStays ==
    ASSUME WrittenInv, disk' = disk, NEW w \in Slots, watchConfig'[w] = watchConfig[w], Due(w),
           walk'.phase \in {"load", "loaded"} <=> walk.phase \in {"load", "loaded"}
    PROVE  Written(watchConfig[w], Stale(watchConfig[w]))'
<1>1. Written(watchConfig[w], Stale(watchConfig[w]))
  BY DEF WrittenInv, Due
<1>2. Stale(watchConfig[w])' = Stale(watchConfig[w])
  BY DEF Stale
<1>3. QED
  BY <1>1, <1>2 DEF Written, Complete, Holds, Says

LEMMA DaemonStays ==
    ASSUME DaemonAsWritten, walk.phase # "load", disk'.main = disk.main, disk'.user = disk.user,
           daemonConfig' = daemonConfig, walk'.phase = "aborted" <=> walk.phase = "aborted"
    PROVE  DaemonAsWritten'
BY DEF DaemonAsWritten

LEMMA LoadFileKeeps == IInv /\ LoadFile => IInv'
<1> SUFFICES ASSUME IInv, LoadFile PROVE IInv'
  OBVIOUS
<1>1. Typed /\ BlankInv /\ WrittenInv /\ SlotsTyped /\ DiskTyped
  BY DEF IInv, Typed
<1>2. /\ walk.k \in Files /\ walk.phase = "load" /\ WalkTyped'
      /\ walk'.phase = "load" /\ walk'.kept = walk.kept /\ walk'.skipped = walk.skipped
      /\ \/ /\ UNCHANGED watchConfig /\ walk'.count = walk.count
         \/ /\ walk.count \in Slots /\ SetSlot(walk.count, NoWatch) /\ walk'.count = walk.count
         \/ /\ walk.count \in Slots /\ SetSlot(walk.count, Activated(Parsed.config))
            /\ walk'.count = walk.count + 1 /\ Parsed.ok /\ Complete(Parsed.config)
  BY <1>1, LoadFileFacts
<1>3. UNCHANGED <<disk, daemonConfig>>
  BY DEF LoadFile
<1>4. DiskTyped' /\ IsDaemon(daemonConfig)' /\ DaemonAsWritten'
  BY <1>1, <1>2, <1>3 DEF DiskTyped, Typed, DaemonAsWritten, IsDaemon
<1>5. walk.count \in Nat
  BY <1>1, WalkFacts DEF Typed
<1>6. CASE UNCHANGED watchConfig /\ walk'.count = walk.count
  <2>1. SlotsTyped' /\ Active' = Active
    BY <1>1, <1>6, SameSlots
  <2>2. BlankInv'
    BY <1>1, <1>2, <1>3, <1>6, <2>1 DEF BlankInv
  <2>3. WrittenInv'
    <3> SUFFICES ASSUME NEW w \in Slots, Due(w)' PROVE Written(watchConfig[w], Stale(watchConfig[w]))'
      BY DEF WrittenInv, Due, Active
    <3>1. Due(w)
      BY <1>2, <2>1 DEF Due
    <3>2. QED
      BY <1>1, <1>2, <1>3, <1>6, <3>1, WrittenStays
  <2>4. QED
    BY <1>2, <1>4, <2>1, <2>2, <2>3 DEF IInv, Typed
<1>7. ASSUME walk.count \in Slots, SetSlot(walk.count, NoWatch), walk'.count = walk.count PROVE IInv'
  <2>1. /\ SlotsTyped' /\ watchConfig'[walk.count] = NoWatch
        /\ \A v \in Slots : v # walk.count => watchConfig'[v] = watchConfig[v]
        /\ Active' = Active \ {walk.count}
    BY <1>1, <1>7, Blank, OneSlot
  <2>2. BlankInv'
    BY <1>1, <1>2, <1>3, <1>7, <2>1 DEF BlankInv
  <2>3. WrittenInv'
    <3> SUFFICES ASSUME NEW w \in Slots, Due(w)' PROVE Written(watchConfig[w], Stale(watchConfig[w]))'
      BY DEF WrittenInv, Due, Active
    <3>1. Due(w) /\ w # walk.count
      BY <1>2, <2>1 DEF Due
    <3>2. QED
      BY <1>1, <1>2, <1>3, <2>1, <3>1, WrittenStays
  <2>4. QED
    BY <1>2, <1>4, <2>1, <2>2, <2>3 DEF IInv, Typed
<1>8. ASSUME walk.count \in Slots, SetSlot(walk.count, Activated(Parsed.config)),
             walk'.count = walk.count + 1, Parsed.ok, Complete(Parsed.config)
      PROVE  IInv'
  <2> DEFINE a == Activated(Parsed.config)
  <2>1. IsWatch(a) /\ a["is_active"] = TRUE
    BY <1>1, <1>2, FileParsed, StoredAreWatches
  <2>2. Written(a, {})
    BY <1>1, <1>2, <1>8, ActivatedWritten
  <2> HIDE DEF a
  <2>3. /\ SlotsTyped' /\ watchConfig'[walk.count] = a
        /\ \A v \in Slots : v # walk.count => watchConfig'[v] = watchConfig[v]
        /\ Active' = Active \cup {walk.count}
    BY <1>1, <1>8, <2>1, OneSlot DEF a
  <2>4. BlankInv'
    <3>1. \A w \in Slots : w >= walk'.count => w \notin Active'
      <4> SUFFICES ASSUME NEW w \in Slots, w >= walk.count + 1 PROVE w \notin Active'
        BY <1>8
      <4>1. w >= walk.count /\ w # walk.count
        BY <1>5 DEF Slots
      <4>2. QED
        BY <1>1, <1>2, <2>3, <4>1 DEF BlankInv
    <3>2. QED
      BY <1>1, <1>2, <1>3, <2>3, <3>1 DEF BlankInv
  <2>5. WrittenInv'
    <3> SUFFICES ASSUME NEW w \in Slots, Due(w)' PROVE Written(watchConfig[w], Stale(watchConfig[w]))'
      BY DEF WrittenInv, Due, Active
    <3>1. CASE w = walk.count
      <4>1. Stale(watchConfig[w])' = {}
        BY <1>2 DEF Stale
      <4>2. QED
        BY <1>3, <2>2, <2>3, <3>1, <4>1 DEF Written
    <3>2. CASE w # walk.count
      <4>1. Due(w)
        BY <1>2, <2>3, <3>2 DEF Due
      <4>2. QED
        BY <1>1, <1>2, <1>3, <2>3, <3>2, <4>1, WrittenStays
    <3>3. QED
      BY <3>1, <3>2
  <2>6. QED
    BY <1>2, <1>4, <2>3, <2>4, <2>5 DEF IInv, Typed
<1>9. QED
  BY <1>2, <1>6, <1>7, <1>8

LEMMA UpdateFileKeeps == IInv /\ UpdateFile => IInv'
<1> SUFFICES ASSUME IInv, UpdateFile PROVE IInv'
  OBVIOUS
<1>1. Typed /\ BlankInv /\ WrittenInv /\ SlotsTyped /\ DiskTyped /\ DaemonAsWritten
  BY DEF IInv, Typed
<1>2. /\ walk.k \in Files /\ walk.phase = "update" /\ WalkTyped'
      /\ walk'.phase \in {"update", "undefined"}
      /\ UNCHANGED <<disk, daemonConfig, programs, known>>
      /\ \/ /\ UNCHANGED watchConfig
            /\ \/ walk'.phase = "undefined"
               \/ walk'.kept = walk.kept /\ walk'.skipped = walk.skipped
               \/ \E w \in Slots : /\ walk'.kept = walk.kept \cup {w}
                                   /\ walk'.skipped = walk.skipped \cup {w}
         \/ /\ \E w \in Slots : SetSlot(w, NoWatch)
            /\ walk'.kept = walk.kept /\ walk'.skipped = walk.skipped
         \/ \E w \in Slots : \E watch : Stores(w, watch)
  BY <1>1, UpdateFileFacts
<1>3. DiskTyped' /\ IsDaemon(daemonConfig)' /\ DaemonAsWritten'
  BY <1>1, <1>2, DaemonStays DEF DiskTyped, Typed, IsDaemon
<1>4. ASSUME NEW w \in Slots, Due(w)'
      PROVE  walk'.phase = "update" /\ w \in Active' /\ w \notin walk'.skipped /\ w \in walk'.kept
  BY <1>2, <1>4 DEF Due, UpdateDone
<1>5. ASSUME NEW w \in Slots, watchConfig'[w] = watchConfig[w], w \in Active, w \notin walk.skipped,
             w \in walk.kept
      PROVE  Written(watchConfig[w], Stale(watchConfig[w]))'
  <2>1. Due(w)
    BY <1>2, <1>5 DEF Due
  <2>2. QED
    BY <1>1, <1>2, <1>5, <2>1, WrittenStays
<1>6. WrittenInv' <=> \A w \in Slots : Due(w)' => Written(watchConfig[w], Stale(watchConfig[w]))'
  BY DEF WrittenInv, Due, Active
<1>7. CASE /\ UNCHANGED watchConfig
           /\ \/ walk'.phase = "undefined"
              \/ walk'.kept = walk.kept /\ walk'.skipped = walk.skipped
              \/ \E w \in Slots : /\ walk'.kept = walk.kept \cup {w}
                                  /\ walk'.skipped = walk.skipped \cup {w}
  <2>1. SlotsTyped' /\ Active' = Active
    BY <1>1, <1>7, SameSlots
  <2>2. BlankInv'
    BY <1>1, <1>2, <1>7, <2>1 DEF BlankInv
  <2>3. ASSUME NEW w \in Slots, Due(w)' PROVE Written(watchConfig[w], Stale(watchConfig[w]))'
    <3>1. w \in Active /\ w \notin walk.skipped /\ w \in walk.kept
      BY <1>4, <1>7, <2>1, <2>3
    <3>2. QED
      BY <1>5, <1>7, <3>1
  <2>4. QED
    BY <1>2, <1>3, <1>6, <2>1, <2>2, <2>3 DEF IInv, Typed
<1>8. ASSUME NEW s \in Slots, SetSlot(s, NoWatch), walk'.kept = walk.kept, walk'.skipped = walk.skipped
      PROVE  IInv'
  <2>1. /\ SlotsTyped' /\ watchConfig'[s] = NoWatch
        /\ \A v \in Slots : v # s => watchConfig'[v] = watchConfig[v]
        /\ Active' = Active \ {s}
    BY <1>1, <1>8, Blank, OneSlot
  <2>2. BlankInv'
    BY <1>1, <1>2, <2>1 DEF BlankInv
  <2>3. ASSUME NEW w \in Slots, Due(w)' PROVE Written(watchConfig[w], Stale(watchConfig[w]))'
    <3>1. w \in Active /\ w # s /\ w \notin walk.skipped /\ w \in walk.kept
      BY <1>4, <1>8, <2>1, <2>3
    <3>2. QED
      BY <1>5, <2>1, <3>1
  <2>4. QED
    BY <1>2, <1>3, <1>6, <2>1, <2>2, <2>3 DEF IInv, Typed
<1>9. ASSUME NEW s \in Slots, NEW watch, Stores(s, watch) PROVE IInv'
  <2>1. /\ Parsed.ok /\ Complete(Parsed.config) /\ SetSlot(s, watch)
        /\ \/ walk'.phase = "undefined"
           \/ walk'.phase = "update" /\ walk'.kept = walk.kept \cup {s} /\ walk'.skipped = walk.skipped
    BY <1>9 DEF Stores
  <2>2. /\ IsWatch(watch) /\ watch["is_active"] = TRUE
        /\ Written(watch, IF watch.do_db_update THEN {} ELSE DbKeys)
    <3>1. IsWatch(Parsed.config)
      BY <1>1, <1>2, FileParsed
    <3>2. CASE watch = Activated(Parsed.config)
      <4>1. IsWatch(watch) /\ watch["is_active"] = TRUE
        BY <3>1, <3>2, StoredAreWatches
      <4>2. QED
        BY <1>1, <1>2, <2>1, <3>2, <4>1, ActivatedWritten
    <3>3. CASE /\ s \in Active /\ watchConfig[s].filename = Parsed.config.filename
               /\ watch = Merged(watchConfig[s], Parsed.config)
      <4>1. IsWatch(watchConfig[s]) /\ watchConfig[s]["is_active"] = TRUE
        BY <1>1, <3>3 DEF SlotsTyped, IsWatch, Active
      <4>2. IsWatch(watch) /\ watch["is_active"] = TRUE
        BY <3>1, <3>3, <4>1, StoredAreWatches
      <4>3. QED
        BY <1>1, <1>2, <2>1, <3>3, <4>1, <4>2, MergedWritten
    <3>4. QED
      BY <1>9, <3>2, <3>3 DEF Stores
  <2>3. /\ SlotsTyped' /\ watchConfig'[s] = watch
        /\ \A v \in Slots : v # s => watchConfig'[v] = watchConfig[v]
        /\ Active' = Active \cup {s}
    BY <1>1, <2>1, <2>2, OneSlot
  <2>4. BlankInv'
    BY <1>1, <1>2, <2>3 DEF BlankInv
  <2>5. ASSUME NEW w \in Slots, Due(w)' PROVE Written(watchConfig[w], Stale(watchConfig[w]))'
    <3>1. walk'.phase = "update" /\ w \in Active' /\ w \notin walk'.skipped /\ w \in walk'.kept
      BY <1>4, <2>5
    <3>2. CASE w = s
      <4>1. Stale(watchConfig[w])' = IF watch.do_db_update THEN {} ELSE DbKeys
        BY <2>3, <3>1, <3>2 DEF Stale
      <4>2. QED
        BY <1>2, <2>2, <2>3, <3>2, <4>1 DEF Written
    <3>3. CASE w # s
      BY <1>5, <2>1, <2>3, <3>1, <3>3
    <3>4. QED
      BY <3>2, <3>3
  <2>6. QED
    BY <1>2, <1>3, <1>6, <2>3, <2>4, <2>5 DEF IInv, Typed
<1>10. QED
  BY <1>2, <1>7, <1>8, <1>9

LEMMA LoadDaemonKeeps == IInv /\ LoadDaemon => IInv'
<1> SUFFICES ASSUME IInv, LoadDaemon PROVE IInv'
  OBVIOUS
<1> DEFINE main == MainParsed(daemonConfig)
<1> DEFINE user == UserParsed(main.config)
<1> DEFINE text == disk.main \o disk.user
<1>1. Typed /\ BlankInv /\ WrittenInv /\ SlotsTyped /\ DiskTyped /\ WalkTyped
  BY DEF IInv, Typed
<1>2. /\ walk.phase = "load" /\ daemonConfig' = user.config
      /\ walk' = [walk EXCEPT !.phase = IF main.ok /\ user.ok THEN "loaded" ELSE "aborted"]
      /\ UNCHANGED <<disk, watchConfig>>
  BY DEF LoadDaemon
<1>3. IsDaemon(daemonConfig) /\ daemonConfig = NoDaemon /\ disk.main \in IniTexts /\ disk.user \in IniTexts
  BY <1>1, <1>2 DEF BlankInv, Typed, DiskTyped, Disks
<1>4. /\ main.ok /\ user.ok <=> WellFormed(text, DaemonKeys)
      /\ main.ok /\ user.ok => Holds(user.config, text, DaemonKeys, NoDaemon)
      /\ IsDaemon(user.config)
  <2> DEFINE one == disk.main
  <2> DEFINE two == disk.user
  <2> HIDE DEF one, two
  <2>1. one \in IniTexts /\ two \in IniTexts
    BY <1>3 DEF one, two
  <2>2. LET r == ParseDaemon(one, NoDaemon)
            q == ParseDaemon(two, r.config)
        IN  /\ r.ok /\ q.ok <=> WellFormed(one \o two, DaemonKeys)
            /\ r.ok /\ q.ok => Holds(q.config, one \o two, DaemonKeys, NoDaemon)
            /\ IsDaemon(q.config)
    BY <2>1, Blank, DaemonParsed
  <2>3. QED
    BY <1>3, <2>2, Zenon DEF MainParsed, UserParsed, one, two
<1> HIDE DEF main, user
<1>5. /\ walk' \in Walks /\ walk'.k = walk.k
      /\ walk'.phase = IF WellFormed(text, DaemonKeys) THEN "loaded" ELSE "aborted"
  <2> DEFINE phase == IF main.ok /\ user.ok THEN "loaded" ELSE "aborted"
  <2>1. phase = IF WellFormed(text, DaemonKeys) THEN "loaded" ELSE "aborted"
    BY <1>4
  <2>2. walk' = [walk EXCEPT !.phase = phase] /\ phase \in Phases
    BY <1>2 DEF Phases
  <2> HIDE DEF phase, text
  <2>3. walk' \in Walks /\ walk'.k = walk.k /\ walk'.phase = phase
    BY <1>1, <2>2 DEF WalkTyped, Walks
  <2>4. QED
    BY <2>1, <2>3
<1>6. WalkTyped'
  BY <1>1, <1>2, <1>5 DEF WalkTyped
<1>7. Typed'
  BY <1>1, <1>2, <1>4, <1>6 DEF Typed, DiskTyped, SlotsTyped
<1>8. BlankInv'
  BY <1>1, <1>2, <1>5, SameSlots DEF BlankInv
<1>9. DaemonAsWritten'
  BY <1>2, <1>4, <1>5 DEF DaemonAsWritten
<1>10. WrittenInv'
  <2> SUFFICES ASSUME NEW w \in Slots, Due(w)' PROVE Written(watchConfig[w], Stale(watchConfig[w]))'
    BY DEF WrittenInv, Due, Active
  <2>1. walk'.phase = "loaded" /\ w \in Active /\ w \notin walk.skipped
    BY <1>1, <1>2, <1>5 DEF Due, UpdateDone, Active, WalkTyped, Walks
  <2>2. Due(w)
    BY <1>2, <2>1 DEF Due
  <2>3. QED
    BY <1>1, <1>2, <2>1, <2>2, WrittenStays
<1>11. QED
  BY <1>7, <1>8, <1>9, <1>10 DEF IInv

LEMMA PurgeKeeps == IInv /\ PurgeStale => IInv'
<1> SUFFICES ASSUME IInv, PurgeStale PROVE IInv'
  OBVIOUS
<1>1. Typed /\ BlankInv /\ WrittenInv /\ SlotsTyped /\ DiskTyped /\ WalkTyped /\ DaemonAsWritten
  BY DEF IInv, Typed
<1>2. /\ walk.phase = "update" /\ UNCHANGED <<disk, daemonConfig>>
      /\ watchConfig' = [w \in Slots |-> IF w \in Active \ walk.kept THEN NoWatch ELSE watchConfig[w]]
      /\ \E notify \in BOOLEAN : walk' = [walk EXCEPT !.phase = "setup", !.k = 0, !.notify = notify]
  BY <1>1, WalkFacts DEF PurgeStale, OnlyTheWatches
<1>3. /\ walk' \in Walks /\ walk'.phase = "setup" /\ walk'.k = 0 /\ walk'.skipped = walk.skipped
  <2>1. PICK notify \in BOOLEAN : walk' = [walk EXCEPT !.phase = "setup", !.k = 0, !.notify = notify]
    BY <1>2
  <2>2. walk' = [phase |-> "setup", k |-> 0, count |-> walk.count, kept |-> walk.kept,
                 skipped |-> walk.skipped, notify |-> notify]
    BY <1>1, <2>1, WalkFacts
  <2>3. QED
    BY <1>1, <2>2, WalkFacts DEF Walks, Phases
<1>4. WalkTyped'
  BY <1>3 DEF WalkTyped
<1>5. \A w \in Slots : watchConfig'[w] = IF w \in Active \ walk.kept THEN NoWatch ELSE watchConfig[w]
  BY <1>2
<1>6. watchConfig' = [w \in Slots |-> watchConfig'[w]]
  BY <1>2
<1>7. SlotsTyped'
  BY <1>1, <1>5, <1>6, Blank DEF SlotsTyped
<1>8. \A w \in Slots : w \in Active' <=> w \in Active /\ w \in walk.kept
  BY <1>5, Blank DEF Active
<1>9. Typed'
  BY <1>1, <1>2, <1>4, <1>7 DEF Typed, DiskTyped, IsDaemon
<1>10. BlankInv'
  BY <1>1, <1>3, <1>5, <1>8 DEF BlankInv
<1>11. DaemonAsWritten'
  BY <1>1, <1>2, <1>3, DaemonStays
<1>12. WrittenInv'
  <2> SUFFICES ASSUME NEW w \in Slots, Due(w)' PROVE Written(watchConfig[w], Stale(watchConfig[w]))'
    BY DEF WrittenInv, Due, Active
  <2>1. w \in Active /\ w \in walk.kept /\ w \notin walk.skipped /\ watchConfig'[w] = watchConfig[w]
    BY <1>3, <1>5, <1>8 DEF Due
  <2>2. Due(w)
    BY <1>2, <2>1 DEF Due
  <2>3. QED
    BY <1>1, <1>2, <1>3, <2>1, <2>2, WrittenStays
<1>13. QED
  BY <1>9, <1>10, <1>11, <1>12 DEF IInv

\* The other steps leave the slots and the daemon's settings alone.
OtherStep ==
    \/ BeginUpdate \/ SetupWatch \/ StartListening \/ StartSession
    \/ Aborted \/ Undefined \/ UNCHANGED vars
    \/ \E w \in Slots : Launch(w) \/ ProgramEnds(w)
    \/ \E f \in Files : \E text \in Texts[f] : EditFile(f, text)

LEMMA OtherStepFacts ==
    ASSUME Typed, OtherStep
    PROVE  /\ DiskTyped' /\ disk'.main = disk.main /\ disk'.user = disk.user
           /\ UNCHANGED <<daemonConfig, watchConfig>>
           /\ WalkTyped'
           /\ \/ UNCHANGED <<disk, walk>>
              \/ /\ walk.phase \in {"idle", "session"} /\ walk'.phase \in {"session", "update"}
                 /\ walk'.phase = "update" => walk'.kept = {}
              \/ walk.phase = "loaded" /\ walk'.phase = "update" /\ walk'.kept = {}
              \/ walk.phase = "setup" /\ walk'.phase = "setup" /\ walk'.k > 0
              \/ walk.phase = "setup" /\ walk'.phase = "idle"
<1>1. DiskTyped /\ WalkTyped
  BY DEF Typed
<1>2. CASE UNCHANGED vars \/ Aborted \/ Undefined \/ \E w \in Slots : Launch(w) \/ ProgramEnds(w)
  <2>1. UNCHANGED <<disk, walk, daemonConfig, watchConfig>>
    BY <1>2 DEF vars, Aborted, Undefined, Launch, ProgramEnds
  <2>2. QED
    BY <1>1, <2>1 DEF DiskTyped, WalkTyped
<1>3. CASE BeginUpdate
  <2>1. /\ walk' = Walk("update", 1) /\ walk.phase \in {"loaded", "session"}
        /\ UNCHANGED <<disk, daemonConfig, watchConfig>>
    BY <1>3 DEF BeginUpdate
  <2>2. 1 \in 1 .. FILES + 1 /\ "update" \in Phases
    BY DEF Phases
  <2>3. WalkTyped' /\ walk'.phase = "update" /\ walk'.kept = {}
    BY <2>1, <2>2, NextPhase
  <2>4. QED
    BY <1>1, <2>1, <2>3 DEF DiskTyped
<1>4. CASE SetupWatch
  <2>1. /\ walk.phase = "setup" /\ walk.k < WATCH_MAX /\ walk' = [walk EXCEPT !.k = @ + 1]
        /\ UNCHANGED <<disk, daemonConfig, watchConfig>>
    BY <1>4 DEF SetupWatch, OnlyTheWatches
  <2>2. walk' \in Walks /\ walk'.phase = "setup" /\ walk'.k = walk.k + 1 /\ walk.k \in 0 .. WATCH_MAX
    BY <1>1, <2>1 DEF WalkTyped, Walks
  <2>3. WalkTyped'
    BY <2>1, <2>2 DEF WalkTyped
  <2>4. QED
    BY <1>1, <2>1, <2>2, <2>3 DEF DiskTyped
<1>5. CASE StartListening
  <2>1. /\ walk' = Walk("idle", 0) /\ walk.phase = "setup"
        /\ UNCHANGED <<disk, daemonConfig, watchConfig>>
    BY <1>5 DEF StartListening
  <2>2. 0 \in 0 .. WATCH_MAX /\ "idle" \in Phases
    BY DEF Phases
  <2>3. WalkTyped' /\ walk'.phase = "idle"
    BY <2>1, <2>2, NextPhase
  <2>4. QED
    BY <1>1, <2>1, <2>3 DEF DiskTyped
<1>6. CASE StartSession
  <2>1. /\ walk' = Walk("session", 0) /\ walk.phase = "idle"
        /\ UNCHANGED <<disk, daemonConfig, watchConfig>>
    BY <1>6 DEF StartSession, OnlyTheWatches
  <2>2. 0 \in 0 .. WATCH_MAX /\ "session" \in Phases
    BY DEF Phases
  <2>3. WalkTyped' /\ walk'.phase = "session" /\ walk'.kept = {}
    BY <2>1, <2>2, NextPhase
  <2>4. QED
    BY <1>1, <2>1, <2>3 DEF DiskTyped
<1>7. ASSUME NEW f \in Files, NEW text \in Texts[f], EditFile(f, text)
      PROVE  /\ DiskTyped' /\ disk'.main = disk.main /\ disk'.user = disk.user
             /\ UNCHANGED <<daemonConfig, watchConfig, walk>> /\ walk.phase = "session"
  <2>1. /\ disk' = [disk EXCEPT !.watches[f] = text] /\ walk.phase = "session"
        /\ UNCHANGED <<daemonConfig, watchConfig, walk>>
    BY <1>7 DEF EditFile
  <2>2. text \in IniTexts
    BY TextsAssumption
  <2>3. DiskTyped'
    BY <1>1, <2>1, <2>2 DEF DiskTyped, Disks
  <2>4. QED
    BY <1>1, <2>1, <2>3 DEF DiskTyped, Disks
<1>8. CASE \E f \in Files : \E text \in Texts[f] : EditFile(f, text)
  <2>1. /\ DiskTyped' /\ disk'.main = disk.main /\ disk'.user = disk.user
        /\ UNCHANGED <<daemonConfig, watchConfig, walk>> /\ walk.phase = "session"
    BY <1>7, <1>8
  <2>2. WalkTyped' /\ walk'.phase = walk.phase
    BY <1>1, <2>1 DEF WalkTyped
  <2>3. QED
    BY <2>1, <2>2
<1>9. QED
  BY <1>2, <1>3, <1>4, <1>5, <1>6, <1>8 DEF OtherStep

LEMMA OtherKeeps == IInv /\ OtherStep => IInv'
<1> SUFFICES ASSUME IInv, OtherStep PROVE IInv'
  OBVIOUS
<1>1. Typed /\ BlankInv /\ WrittenInv /\ SlotsTyped /\ DaemonAsWritten
  BY DEF IInv, Typed
<1>2. /\ DiskTyped' /\ disk'.main = disk.main /\ disk'.user = disk.user
      /\ UNCHANGED <<daemonConfig, watchConfig>>
      /\ WalkTyped'
      /\ \/ UNCHANGED <<disk, walk>>
         \/ /\ walk.phase \in {"idle", "session"} /\ walk'.phase \in {"session", "update"}
            /\ walk'.phase = "update" => walk'.kept = {}
         \/ walk.phase = "loaded" /\ walk'.phase = "update" /\ walk'.kept = {}
         \/ walk.phase = "setup" /\ walk'.phase = "setup" /\ walk'.k > 0
         \/ walk.phase = "setup" /\ walk'.phase = "idle"
  BY <1>1, OtherStepFacts
<1>3. SlotsTyped' /\ Active' = Active
  BY <1>1, <1>2, SameSlots
<1>4. Typed'
  BY <1>1, <1>2, <1>3 DEF Typed, IsDaemon
<1>5. BlankInv'
  BY <1>1, <1>2, <1>3 DEF BlankInv
<1>6. DaemonAsWritten'
  <2>1. CASE walk.phase = "load"
    BY <1>2, <2>1 DEF DaemonAsWritten
  <2>2. CASE walk.phase # "load"
    BY <1>1, <1>2, <2>2, DaemonStays
  <2>3. QED
    BY <2>1, <2>2
<1>7. WrittenInv'
  <2> SUFFICES ASSUME NEW w \in Slots, Due(w)' PROVE Written(watchConfig[w], Stale(watchConfig[w]))'
    BY DEF WrittenInv, Due, Active
  <2>1. UNCHANGED <<disk, walk>>
    BY <1>2 DEF Due, UpdateDone
  <2>2. Due(w)
    BY <1>2, <1>3, <2>1 DEF Due, UpdateDone
  <2>3. QED
    BY <1>1, <1>2, <2>1, <2>2, WrittenStays
<1>8. QED
  BY <1>4, <1>5, <1>6, <1>7 DEF IInv

LEMMA IInvNext == IInv /\ [Next]_vars => IInv'
<1>1. [Next]_vars => LoadFile \/ LoadDaemon \/ UpdateFile \/ PurgeStale \/ OtherStep
  BY Zenon DEF Next, UpdateFile, OtherStep
<1>2. QED
  BY <1>1, LoadFileKeeps, LoadDaemonKeeps, UpdateFileKeeps, PurgeKeeps, OtherKeeps

LEMMA Invariance == Spec => []IInv
<1>1. QED
  BY IInvInit, IInvNext, PTL DEF Spec

-----------------------------------------------------------------------------
(* What WatchConfig sees of a state.                                       *)

IniSeen == [f \in Files |-> ContentsOf[disk.watches[f]]]

SlotsSeen == [w \in Slots |-> WatchSettings(watchConfig[w])]

WalkSeen == [walk EXCEPT !.phase = IF @ \in {"loaded", "aborted"} THEN "load" ELSE @]

KnownSeen == [w \in Slots |-> WatchSettings(known[w])]

\* What it sees of a file.
LEMMA ContentsFacts ==
    ASSUME NEW f \in Files, NEW text \in Texts[f]
    PROVE  LET p == ParseWatch(text, NoWatch)
               c == p.config
               x == ContentsOf[text]
           IN  /\ x \in W!Contents
               /\ x.state = "parsed" <=> p.ok /\ c.filename # ""
               /\ x.state = "parsed" => x.filename = c.filename
               /\ x.sane <=> p.ok /\ Complete(c)
               /\ x.sane => x.settings = SettingsOf(c)
<1> DEFINE p == ParseWatch(text, NoWatch)
<1> DEFINE c == p.config
<1> DEFINE parsed == p.ok /\ c.filename # ""
<1> DEFINE sane == parsed /\ Complete(c)
<1> DEFINE x == ContentsOf[text]
<1>1. IsWatch(c)
  BY Blank, WatchParsed
<1>2. text \in AllTexts
  BY DEF AllTexts
<1>3. SettingsOf(c) \in AllSettings
  BY <1>2 DEF AllSettings
<1>4. x = [state    |-> IF parsed THEN "parsed" ELSE "unreadable",
           filename |-> IF parsed THEN c.filename ELSE "",
           sane     |-> sane,
           settings |-> IF sane THEN SettingsOf(c) ELSE NoneSet]
  BY <1>2 DEF ContentsOf
<1>5. c.filename \in DOMAIN Basename \cup {""}
  BY <1>1 DEF IsWatch
<1>6. Complete(c) => c.filename # ""
  BY DEF Complete, Strict
<1> DEFINE Right == /\ x \in W!Contents
                    /\ x.state = "parsed" <=> p.ok /\ c.filename # ""
                    /\ x.state = "parsed" => x.filename = c.filename
                    /\ x.sane <=> p.ok /\ Complete(c)
                    /\ x.sane => x.settings = SettingsOf(c)
<1> HIDE DEF x, p
<1>7. ASSUME sane PROVE Right
  <2>1. x = [state |-> "parsed", filename |-> c.filename, sane |-> TRUE, settings |-> SettingsOf(c)]
    BY <1>4, <1>7
  <2>2. x \in W!Contents
    BY <1>3, <1>5, <1>7, <2>1 DEF W!Contents, W!Sane
  <2>3. QED
    BY <1>7, <2>1, <2>2
<1>8. ASSUME parsed, ~Complete(c) PROVE Right
  <2>1. x = [state |-> "parsed", filename |-> c.filename, sane |-> FALSE, settings |-> NoneSet]
    BY <1>4, <1>8
  <2>2. x \in W!Contents
    BY <1>5, <1>8, <2>1 DEF W!Contents, W!Insane
  <2>3. QED
    BY <1>8, <2>1, <2>2
<1>9. ASSUME ~parsed PROVE Right
  <2>1. x = [state |-> "unreadable", filename |-> "", sane |-> FALSE, settings |-> NoneSet]
    BY <1>4, <1>9
  <2>2. x \in W!Contents
    BY <2>1 DEF W!Contents, W!Unreadable
  <2>3. QED
    BY <1>6, <1>9, <2>1, <2>2
<1>10. QED
  <2>1. Right
    BY <1>7, <1>8, <1>9
  <2>2. QED
    BY <2>1, Zenon DEF x, p

\* What it sees of a slot.
LEMMA SettingsFacts ==
    ASSUME NEW c, IsWatch(c)
    PROVE  /\ WatchSettings(c).is_active = c.is_active /\ WatchSettings(c).filename = c.filename
           /\ WatchSettings(NoWatch) = W!Unused
           /\ WatchSettings(Activated(c)) = [is_active |-> TRUE, filename |-> c.filename, settings |-> SettingsOf(c)]
<1>1. WatchSettings(c).is_active = c.is_active /\ WatchSettings(c).filename = c.filename
  BY DEF WatchSettings
<1>2. NoWatch.is_active = FALSE /\ NoWatch.filename = ""
  BY DEF NoWatch, WatchKeys, Strict, Flags
<1>3. WatchSettings(NoWatch) = W!Unused
  BY <1>2 DEF WatchSettings, W!Unused, NoneSet
<1> DEFINE a == Activated(c)
<1>4. a.is_active = TRUE /\ \A key \in WatchKeys : a[key] = c[key]
  BY StoredAreWatches
<1>5. {"filename", "do_db_update"} \subseteq WatchKeys
  BY DEF WatchKeys, Strict, Flags
<1> HIDE DEF a
<1>6. a.filename = c.filename /\ a.do_db_update = c.do_db_update
  BY <1>4, <1>5
<1>7. SettingsOf(a) = SettingsOf(c)
  BY <1>4, <1>6 DEF SettingsOf
<1>8. WatchSettings(a) = [is_active |-> TRUE, filename |-> c.filename, settings |-> SettingsOf(c)]
  BY <1>4, <1>6, <1>7 DEF WatchSettings
<1>9. QED
  BY <1>1, <1>3, <1>8 DEF a

\* A merge gives a slot the settings of the config, and changes none that is not seen.
LEMMA MergedFacts ==
    ASSUME NEW c, IsWatch(c), NEW watch, IsWatch(watch), watch.filename = c.filename,
           watch.is_active = TRUE
    PROVE  LET m == Merged(watch, c) IN
           /\ WatchSettings(m) = [is_active |-> TRUE, filename |-> c.filename, settings |-> SettingsOf(c)]
           /\ m = watch <=> WatchSettings(m) = WatchSettings(watch)
<1> DEFINE m == Merged(watch, c)
<1>1. /\ IsWatch(m) /\ m.is_active = TRUE
      /\ \A key \in WatchKeys : m[key] = IF key = "filename" \/ (key \in DbKeys /\ ~c.do_db_update)
                                         THEN watch[key] ELSE c[key]
  BY StoredAreWatches
<1>2. /\ {"filename", "do_db_update"} \subseteq WatchKeys /\ "do_db_update" \notin DbKeys
      /\ "filename" \notin DbKeys /\ "is_active" \notin WatchKeys
  BY DEF WatchKeys, Strict, Flags, DbKeys, Loose
<1> HIDE DEF m
<1>3. m.do_db_update = c.do_db_update /\ m.filename = c.filename
  BY <1>1, <1>2
<1>4. SettingsOf(m) = SettingsOf(c)
  <2>1. \A key \in WatchKeys \ {"filename"} :
            (IF key \in DbKeys /\ ~m.do_db_update THEN "" ELSE m[key])
            = (IF key \in DbKeys /\ ~c.do_db_update THEN "" ELSE c[key])
    BY <1>1, <1>3
  <2>2. QED
    BY <2>1 DEF SettingsOf
<1>5. ASSUME WatchSettings(m) = WatchSettings(watch) PROVE m = watch
  <2>1. SettingsOf(m) = SettingsOf(watch)
    <3>1. WatchSettings(m).settings = WatchSettings(watch).settings
      BY <1>5
    <3>2. QED
      BY <3>1 DEF WatchSettings
  <2>2. \A key \in WatchKeys \ {"filename"} :
            (IF key \in DbKeys /\ ~m.do_db_update THEN "" ELSE m[key])
            = (IF key \in DbKeys /\ ~watch.do_db_update THEN "" ELSE watch[key])
    <3> SUFFICES ASSUME NEW key \in WatchKeys \ {"filename"}
                 PROVE  (IF key \in DbKeys /\ ~m.do_db_update THEN "" ELSE m[key])
                        = (IF key \in DbKeys /\ ~watch.do_db_update THEN "" ELSE watch[key])
      OBVIOUS
    <3>1. SettingsOf(m)[key] = SettingsOf(watch)[key]
      BY <2>1
    <3>2. QED
      BY <3>1 DEF SettingsOf
  <2>3. m.do_db_update = watch.do_db_update
    BY <1>2, <2>2
  <2>4. \A key \in WatchKeys : m[key] = watch[key]
    BY <1>1, <1>3, <2>2, <2>3
  <2>5. m = [key \in WatchKeys \cup {"is_active"} |-> m[key]]
        /\ watch = [key \in WatchKeys \cup {"is_active"} |-> watch[key]]
    BY <1>1 DEF IsWatch
  <2>6. \A key \in WatchKeys \cup {"is_active"} : m[key] = watch[key]
    BY <1>1, <2>4
  <2>7. QED
    BY <2>5, <2>6
<1>6. WatchSettings(m) = [is_active |-> TRUE, filename |-> c.filename, settings |-> SettingsOf(c)]
  BY <1>1, <1>3, <1>4 DEF WatchSettings
<1>7. QED
  BY <1>5, <1>6 DEF m

LEMMA WalkSeenIs ==
    ASSUME NEW x \in Walks
    PROVE  LET y == [x EXCEPT !.phase = IF @ \in {"loaded", "aborted"} THEN "load" ELSE @] IN
           /\ x.phase \notin {"loaded", "aborted"} => y = x
           /\ x.phase \in {"loaded", "aborted"} => y = [x EXCEPT !.phase = "load"]
BY DEF Walks

LEMMA OpsSeen ==
    ASSUME Typed
    PROVE  /\ W!Slots = Slots /\ W!Files = Files /\ W!Active = Active
           /\ \A w \in Slots : \A x : W!IsMatch(w, x) <=>
                IsFirst(w, {v \in Active : watchConfig[v].filename = x.filename})
           /\ \A x : W!IsValid(x) <=>
                x.sane /\ \A w \in Active : /\ watchConfig[w].filename # x.filename
                                            /\ Basename[watchConfig[w].filename] # Basename[x.filename]
           /\ \A w \in Slots : W!IsNextAvailable(w) <=> IsFirst(w, Slots \ Active)
           /\ \A w : W!IsSpawned(w) <=> IsSpawned(w)
<1>1. W!Slots = Slots /\ W!Files = Files
  BY DEF W!Slots, Slots, W!Files, Files
<1>2. \A w \in Slots : /\ SlotsSeen[w].is_active = watchConfig[w].is_active
                       /\ SlotsSeen[w].filename = watchConfig[w].filename
  BY SettingsFacts DEF Typed, SlotsTyped, SlotsSeen
<1>3. W!Active = Active
  BY <1>1, <1>2 DEF W!Active, Active, SlotsSeen
<1>4. \A w \in Slots : \A x : W!IsMatch(w, x) <=>
                IsFirst(w, {v \in Active : watchConfig[v].filename = x.filename})
  <2> TAKE w \in Slots
  <2> TAKE x
  <2>1. {v \in Active : SlotsSeen[v].filename = x.filename} = {v \in Active : watchConfig[v].filename = x.filename}
    BY <1>2 DEF Active
  <2>2. W!IsMatch(w, x) <=> IsFirst(w, {v \in Active : SlotsSeen[v].filename = x.filename})
    BY <1>3 DEF W!IsMatch, W!IsFirst, IsFirst, SlotsSeen
  <2>3. QED
    BY <2>1, <2>2
<1>5. \A x : W!IsValid(x) <=>
                x.sane /\ \A w \in Active : /\ watchConfig[w].filename # x.filename
                                            /\ Basename[watchConfig[w].filename] # Basename[x.filename]
  <2> TAKE x
  <2>1. W!IsValid(x) <=> x.sane /\ \A w \in Active : /\ SlotsSeen[w].filename # x.filename
                                                     /\ Basename[SlotsSeen[w].filename] # Basename[x.filename]
    BY <1>3, Zenon DEF W!IsValid, SlotsSeen
  <2>2. \A w \in Active : SlotsSeen[w].filename = watchConfig[w].filename
    BY <1>2 DEF Active
  <2>3. QED
    BY <2>1, <2>2, Zenon
<1>6. \A w \in Slots : W!IsNextAvailable(w) <=> IsFirst(w, Slots \ Active)
  BY <1>1, <1>3 DEF W!IsNextAvailable, W!IsFirst, IsFirst
<1>7. \A w : W!IsSpawned(w) <=> IsSpawned(w)
  BY DEF W!IsSpawned, IsSpawned
<1>8. QED
  BY <1>1, <1>3, <1>4, <1>5, <1>6, <1>7

LEMMA SetSlotSeen ==
    ASSUME SlotsTyped, NEW w \in Slots, NEW watch, IsWatch(watch), SetSlot(w, watch)
    PROVE  W!SetSlot(w, WatchSettings(watch))
<1>1. /\ watchConfig'[w] = watch
      /\ \A v \in Slots : v # w => watchConfig'[v] = watchConfig[v]
  BY OneSlot
<1>2. SlotsSeen' = [SlotsSeen EXCEPT ![w] = WatchSettings(watch)]
  BY <1>1 DEF SlotsSeen
<1>3. QED
  BY <1>2 DEF W!SetSlot, SlotsSeen

\* The watches have filenames, and KFMon goes on when the last file is loaded.
Named ==
    /\ \A w \in Active : watchConfig[w].filename # ""
    /\ walk.phase = "loaded" => walk.k > FILES

LEMMA NamedNext == IInv /\ Named /\ [Next]_vars => Named'
<1> SUFFICES ASSUME IInv, Named, [Next]_vars PROVE Named'
  OBVIOUS
<1>1. Typed /\ BlankInv /\ SlotsTyped /\ DiskTyped /\ WalkTyped
  BY DEF IInv, Typed
<1>2. CASE LoadFile
  <2>1. /\ walk.k \in Files /\ walk'.phase = "load"
        /\ \/ UNCHANGED watchConfig
           \/ walk.count \in Slots /\ SetSlot(walk.count, NoWatch)
           \/ /\ walk.count \in Slots /\ SetSlot(walk.count, Activated(Parsed.config))
              /\ Complete(Parsed.config)
    BY <1>1, <1>2, LoadFileFacts
  <2>2. CASE UNCHANGED watchConfig
    BY <2>1, <2>2, SameSlots DEF Named
  <2>3. CASE walk.count \in Slots /\ SetSlot(walk.count, NoWatch)
    <3>1. /\ \A v \in Slots : v # walk.count => watchConfig'[v] = watchConfig[v]
          /\ Active' = Active \ {walk.count}
      BY <1>1, <2>3, Blank, OneSlot
    <3>2. QED
      BY <2>1, <3>1 DEF Named, Active
  <2>4. CASE /\ walk.count \in Slots /\ SetSlot(walk.count, Activated(Parsed.config))
             /\ Complete(Parsed.config)
    <3> DEFINE a == Activated(Parsed.config)
    <3>1. IsWatch(a) /\ a["is_active"] = TRUE /\ \A key \in WatchKeys : a[key] = Parsed.config[key]
      BY <1>1, <2>1, FileParsed, StoredAreWatches
    <3>2. a["filename"] # ""
      BY <2>4, <3>1 DEF Complete, Strict, WatchKeys
    <3> HIDE DEF a
    <3>3. /\ watchConfig'[walk.count] = a
          /\ \A v \in Slots : v # walk.count => watchConfig'[v] = watchConfig[v]
          /\ Active' = Active \cup {walk.count}
      BY <1>1, <2>4, <3>1, OneSlot DEF a
    <3>4. QED
      BY <2>1, <3>2, <3>3 DEF Named, Active
  <2>5. QED
    BY <2>1, <2>2, <2>3, <2>4
<1>3. CASE UpdateFile
  <2>1. /\ walk.k \in Files /\ walk'.phase \in {"update", "undefined"}
        /\ \/ UNCHANGED watchConfig
           \/ \E w \in Slots : SetSlot(w, NoWatch)
           \/ \E w \in Slots : \E watch : Stores(w, watch)
    BY <1>1, <1>3, UpdateFileFacts
  <2>2. CASE UNCHANGED watchConfig
    BY <2>1, <2>2, SameSlots DEF Named
  <2>3. ASSUME NEW s \in Slots, SetSlot(s, NoWatch) PROVE Named'
    <3>1. /\ \A v \in Slots : v # s => watchConfig'[v] = watchConfig[v]
          /\ Active' = Active \ {s}
      BY <1>1, <2>3, Blank, OneSlot
    <3>2. QED
      BY <2>1, <3>1 DEF Named, Active
  <2>4. ASSUME NEW s \in Slots, NEW watch, Stores(s, watch) PROVE Named'
    <3>1. IsWatch(Parsed.config) /\ Parsed.config["filename"] # "" /\ SetSlot(s, watch)
      BY <1>1, <2>1, <2>4, FileParsed DEF Stores, Complete, Strict
    <3>2. IsWatch(watch) /\ watch["is_active"] = TRUE /\ watch["filename"] # ""
      <4>1. "filename" \in WatchKeys
        BY DEF WatchKeys, Strict
      <4>2. CASE watch = Activated(Parsed.config)
        BY <3>1, <4>1, <4>2, StoredAreWatches
      <4>3. CASE s \in Active /\ watch = Merged(watchConfig[s], Parsed.config)
        <5>1. IsWatch(watchConfig[s]) /\ watchConfig[s]["is_active"] = TRUE /\ watchConfig[s]["filename"] # ""
          BY <1>1, <4>3 DEF SlotsTyped, IsWatch, Active, Named
        <5> DEFINE m == Merged(watchConfig[s], Parsed.config)
        <5>2. /\ IsWatch(m) /\ m["is_active"] = watchConfig[s]["is_active"]
              /\ \A key \in WatchKeys :
                    m[key] = IF key = "filename" \/ (key \in DbKeys /\ ~Parsed.config.do_db_update)
                             THEN watchConfig[s][key] ELSE Parsed.config[key]
          BY <3>1, <5>1, StoredAreWatches, ZenonT(60)
        <5> HIDE DEF m
        <5>3. m["filename"] = watchConfig[s]["filename"]
          BY <4>1, <5>2
        <5>4. QED
          BY <4>3, <5>1, <5>2, <5>3 DEF m
      <4>4. QED
        BY <2>4, <4>2, <4>3 DEF Stores
    <3>3. /\ watchConfig'[s] = watch
          /\ \A v \in Slots : v # s => watchConfig'[v] = watchConfig[v]
          /\ Active' = Active \cup {s}
      BY <1>1, <3>1, <3>2, OneSlot
    <3>4. QED
      BY <2>1, <3>2, <3>3 DEF Named, Active
  <2>5. QED
    BY <2>1, <2>2, <2>3, <2>4
<1>4. CASE LoadDaemon
  <2>1. UNCHANGED watchConfig /\ walk'.k > FILES
    BY <1>1, <1>4 DEF LoadDaemon, WalkTyped, Walks
  <2>2. QED
    BY <2>1, SameSlots DEF Named
<1>5. CASE PurgeStale
  <2>1. walk'.phase = "setup"
    BY <1>1, <1>5 DEF PurgeStale, WalkTyped, Walks
  <2>2. \A w \in Slots : watchConfig'[w] = watchConfig[w] \/ watchConfig'[w] = NoWatch
    BY <1>5 DEF PurgeStale
  <2>3. QED
    BY <2>1, <2>2, Blank DEF Named, Active
<1>6. CASE OtherStep
  <2>1. UNCHANGED watchConfig /\ (walk'.phase = "loaded" => UNCHANGED walk)
    BY <1>1, <1>6, OtherStepFacts
  <2>2. QED
    BY <2>1, SameSlots DEF Named
<1>7. QED
  <2>1. LoadFile \/ LoadDaemon \/ UpdateFile \/ PurgeStale \/ OtherStep
    BY Zenon DEF Next, UpdateFile, OtherStep
  <2>2. QED
    BY <1>2, <1>3, <1>4, <1>5, <1>6, <2>1

-----------------------------------------------------------------------------
(* Each step is one of WatchConfig's, or none.                             *)

LEMMA FileSeen ==
    ASSUME DiskTyped, walk.k \in Files
    PROVE  LET x == IniSeen[walk.k] IN
           /\ x.state = "parsed" <=> Parsed.ok /\ Parsed.config.filename # ""
           /\ x.state = "parsed" => x.filename = Parsed.config.filename
           /\ x.sane <=> Parsed.ok /\ Complete(Parsed.config)
           /\ x.sane => x.settings = SettingsOf(Parsed.config)
<1> DEFINE text == disk.watches[walk.k]
<1>1. text \in Texts[walk.k]
  BY DEF DiskTyped
<1>2. Parsed = ParseWatch(text, NoWatch) /\ IniSeen[walk.k] = ContentsOf[text]
  BY DEF Parsed, IniSeen
<1> HIDE DEF text
<1>3. LET p == ParseWatch(text, NoWatch)
          c == p.config
          x == ContentsOf[text]
      IN  /\ x \in W!Contents
          /\ x.state = "parsed" <=> p.ok /\ c.filename # ""
          /\ x.state = "parsed" => x.filename = c.filename
          /\ x.sane <=> p.ok /\ Complete(c)
          /\ x.sane => x.settings = SettingsOf(c)
  BY <1>1, ContentsFacts
<1>4. QED
  BY <1>2, <1>3, Zenon

LEMMA CompleteIsNamed ==
    ASSUME NEW c, Complete(c)
    PROVE  c.filename # ""
BY DEF Complete, Strict

LEMMA LoadFileSeen ==
    ASSUME IInv, LoadFile
    PROVE  W!LoadFile
<1> DEFINE x == IniSeen[walk.k]
<1> DEFINE c == Parsed.config
<1> DEFINE loaded == x.state = "parsed" /\ walk.count < WATCH_MAX /\ W!IsValid(x)
<1>1. Typed /\ BlankInv /\ SlotsTyped /\ DiskTyped /\ WalkTyped /\ walk \in Walks
  BY DEF IInv, Typed, WalkTyped
<1>2. walk.phase = "load" /\ walk.k <= FILES /\ walk.k \in Files
  BY <1>1, WalkFacts DEF LoadFile
<1>3. walk'.phase = "load" /\ walk' \in Walks
  BY <1>1, LoadFileFacts DEF WalkTyped
<1>4. WalkSeen = walk /\ WalkSeen' = walk'
  BY <1>1, <1>2, <1>3, WalkSeenIs DEF WalkSeen
<1>5. IniSeen' = IniSeen /\ programs' = programs /\ KnownSeen' = KnownSeen
  BY DEF LoadFile, IniSeen, KnownSeen
<1>6. IsWatch(c)
  BY <1>1, <1>2, FileParsed
<1>7. W!IsValid(x) <=> x.sane /\ \A w \in Active : /\ watchConfig[w].filename # x.filename
                                                   /\ Basename[watchConfig[w].filename] # Basename[x.filename]
  BY <1>1, OpsSeen
<1>8. loaded <=> walk.count < WATCH_MAX /\ Parsed.ok /\ IsValid(c)
  <2>1. /\ x.state = "parsed" <=> Parsed.ok /\ c.filename # ""
        /\ x.state = "parsed" => x.filename = c.filename
        /\ x.sane <=> Parsed.ok /\ Complete(c)
    BY <1>1, <1>2, FileSeen
  <2>2. Complete(c) => c.filename # ""
    BY CompleteIsNamed
  <2>3. IsValid(c) <=> Complete(c) /\ \A w \in Active : Basename[watchConfig[w].filename] # Basename[c.filename]
    BY DEF IsValid
  <2> HIDE DEF x, c
  <2>4. QED
    BY <1>7, <2>1, <2>2, <2>3
<1>9. ASSUME loaded
      PROVE  /\ W!SetSlot(walk.count, W!WatchOf(x))
             /\ walk' = [walk EXCEPT !.k = @ + 1, !.count = @ + 1]
  <2>1. watchConfig[walk.count] = NoWatch /\ walk.count \in Slots
    BY <1>1, <1>2, <1>9, LoadParsed, WalkFacts
  <2>2. Parsed = ParseWatch(disk.watches[walk.k], watchConfig[walk.count])
    BY <2>1 DEF Parsed
  <2>3. SetSlot(walk.count, Activated(c)) /\ walk' = [walk EXCEPT !.k = @ + 1, !.count = @ + 1]
    <3>1. walk.count < WATCH_MAX /\ Parsed.ok /\ IsValid(c)
      BY <1>8, <1>9
    <3>2. QED
      BY <2>2, <3>1, Zenon DEF LoadFile
  <2>4. IsWatch(Activated(c))
    BY <1>6, StoredAreWatches
  <2>5. W!SetSlot(walk.count, WatchSettings(Activated(c)))
    BY <1>1, <2>1, <2>3, <2>4, SetSlotSeen
  <2>6. WatchSettings(Activated(c)) = [is_active |-> TRUE, filename |-> c.filename, settings |-> SettingsOf(c)]
    BY <1>6, SettingsFacts
  <2>7. x.filename = c.filename /\ x.settings = SettingsOf(c)
    BY <1>1, <1>2, <1>7, <1>9, FileSeen
  <2>8. W!WatchOf(x) = WatchSettings(Activated(c))
    BY <2>6, <2>7 DEF W!WatchOf
  <2>9. QED
    BY <2>3, <2>5, <2>8
<1>10. ASSUME ~loaded
       PROVE  walk' = [walk EXCEPT !.k = @ + 1] /\ SlotsSeen' = SlotsSeen
  <2>1. CASE walk.count < WATCH_MAX
    <3>1. watchConfig[walk.count] = NoWatch /\ walk.count \in Slots
      BY <1>1, <1>2, <2>1, LoadParsed, WalkFacts
    <3>2. Parsed = ParseWatch(disk.watches[walk.k], watchConfig[walk.count])
      BY <3>1 DEF Parsed
    <3>3. ~(Parsed.ok /\ IsValid(c))
      BY <1>8, <1>10, <2>1
    <3>4. SetSlot(walk.count, NoWatch) /\ walk' = [walk EXCEPT !.k = @ + 1]
      BY <2>1, <3>2, <3>3, Zenon DEF LoadFile
    <3>5. \A v \in Slots : watchConfig'[v] = watchConfig[v]
      BY <1>1, <3>1, <3>4, Blank, OneSlot
    <3>6. QED
      BY <3>4, <3>5 DEF SlotsSeen
  <2>2. CASE ~(walk.count < WATCH_MAX)
    BY <2>2 DEF LoadFile, SlotsSeen
  <2>3. QED
    BY <2>1, <2>2
<1> HIDE DEF loaded, c
<1>11. IF loaded
       THEN /\ W!SetSlot(walk.count, W!WatchOf(x))
            /\ walk' = [walk EXCEPT !.k = @ + 1, !.count = @ + 1]
       ELSE /\ walk' = [walk EXCEPT !.k = @ + 1]
            /\ SlotsSeen' = SlotsSeen
  BY <1>9, <1>10
<1>12. QED
  <2>1. /\ WalkSeen.phase = "load" /\ WalkSeen.k <= FILES
        /\ LET y == IniSeen[WalkSeen.k] IN
           IF y.state = "parsed" /\ WalkSeen.count < WATCH_MAX /\ W!IsValid(y)
           THEN /\ W!SetSlot(WalkSeen.count, W!WatchOf(y))
                /\ WalkSeen' = [WalkSeen EXCEPT !.k = @ + 1, !.count = @ + 1]
           ELSE /\ WalkSeen' = [WalkSeen EXCEPT !.k = @ + 1]
                /\ SlotsSeen' = SlotsSeen
    BY <1>2, <1>4, <1>11, Zenon DEF loaded
  <2>2. QED
    BY <1>5, <2>1, Zenon DEF W!LoadFile, IniSeen, SlotsSeen, WalkSeen, KnownSeen

LEMMA KeepSeen ==
    ASSUME WalkTyped, Updating, NEW w \in Slots, NEW skipped \in SUBSET Slots, NEW notify \in BOOLEAN,
           Keep(w, skipped, notify)
    PROVE  W!Keep(w, skipped, notify)
<1>1. walk \in Walks /\ walk.phase = "update"
  BY DEF WalkTyped, Updating
<1>2. \E change \in BOOLEAN : Keep(w, skipped, change)
  OBVIOUS
<1>3. WalkTyped' /\ walk'.phase \in {"update", "undefined"}
  BY <1>2, KeepFacts
<1>4. walk' \in Walks
  BY <1>3 DEF WalkTyped
<1>5. WalkSeen = walk /\ WalkSeen' = walk'
  BY <1>1, <1>3, <1>4, WalkSeenIs DEF WalkSeen
<1>6. WalkSeen' = IF WalkSeen.count < WATCH_MAX
                  THEN [WalkSeen EXCEPT !.k = @ + 1, !.count = @ + 1, !.kept = @ \cup {w},
                                        !.skipped = @ \cup skipped, !.notify = @ \/ notify]
                  ELSE [WalkSeen EXCEPT !.phase = "undefined"]
  BY <1>5, Zenon DEF Keep
<1>7. QED
  BY <1>6, Zenon DEF W!Keep, WalkSeen

\* In an update the walk is seen as it is.
LEMMA UpdateSeen ==
    ASSUME IInv, UpdateFile
    PROVE  /\ Typed /\ SlotsTyped /\ DiskTyped /\ WalkTyped /\ BlankInv
           /\ walk.k \in Files /\ walk.phase = "update" /\ walk.k <= FILES /\ Updating
           /\ WalkSeen = walk /\ WalkSeen' = walk'
           /\ IniSeen' = IniSeen /\ KnownSeen' = KnownSeen /\ programs' = programs
           /\ IsWatch(Parsed.config)
<1>1. Typed /\ SlotsTyped /\ DiskTyped /\ WalkTyped /\ BlankInv
  BY DEF IInv, Typed
<1>2. /\ walk.k \in Files /\ walk.phase = "update" /\ WalkTyped' /\ walk'.phase \in {"update", "undefined"}
      /\ UNCHANGED <<disk, daemonConfig, programs, known>>
  BY <1>1, UpdateFileFacts
<1>3. walk \in Walks /\ walk' \in Walks
  BY <1>1, <1>2 DEF WalkTyped
<1>4. WalkSeen = walk /\ WalkSeen' = walk'
  BY <1>2, <1>3, WalkSeenIs DEF WalkSeen
<1>5. IniSeen' = IniSeen /\ KnownSeen' = KnownSeen
  BY <1>2 DEF IniSeen, KnownSeen
<1>6. walk.k <= FILES /\ Updating
  BY <1>2 DEF Files, Updating
<1>7. IsWatch(Parsed.config)
  BY <1>1, <1>2, FileParsed
<1>8. QED
  BY <1>1, <1>2, <1>4, <1>5, <1>6, <1>7

LEMMA SlotsSame ==
    ASSUME UNCHANGED watchConfig
    PROVE  SlotsSeen' = SlotsSeen
BY DEF SlotsSeen

\* A file that WatchConfig does not distinguish from one that is not there.
LEMMA SkipFileSeen ==
    ASSUME IInv, UpdateFile, IniSeen[walk.k].state # "parsed",
           walk' = [walk EXCEPT !.k = @ + 1], SlotsSeen' = SlotsSeen
    PROVE  W!SkipFile
<1>1. WalkSeen.phase = "update" /\ WalkSeen.k <= FILES /\ IniSeen[WalkSeen.k].state # "parsed"
      /\ WalkSeen' = [WalkSeen EXCEPT !.k = @ + 1]
  BY UpdateSeen
<1>2. W!Updating("other")
  <2>1. (IniSeen[WalkSeen.k].state = "parsed") = ("other" = "parsed")
    BY <1>1
  <2>2. QED
    BY <1>1, <2>1, Zenon DEF W!Updating, IniSeen, WalkSeen
<1>3. IniSeen' = IniSeen /\ KnownSeen' = KnownSeen /\ programs' = programs
  BY UpdateSeen
<1>4. QED
  BY <1>1, <1>2, <1>3, Zenon DEF W!SkipFile, IniSeen, SlotsSeen, WalkSeen, KnownSeen

LEMMA UpdatingSeen ==
    ASSUME IInv, UpdateFile, IniSeen[walk.k].state = "parsed"
    PROVE  W!Updating("parsed")
<1>1. WalkSeen.phase = "update" /\ WalkSeen.k <= FILES /\ IniSeen[WalkSeen.k].state = "parsed"
  BY UpdateSeen
<1>2. (IniSeen[WalkSeen.k].state = "parsed") = ("parsed" = "parsed")
  BY <1>1
<1>3. QED
  BY <1>1, <1>2, Zenon DEF W!Updating, IniSeen, WalkSeen

LEMMA DiscardFileSeen ==
    ASSUME IInv, DiscardFile
    PROVE  W!SkipFile
<1>1. UpdateFile
  BY DEF UpdateFile
<1>2. DiskTyped /\ walk.k \in Files
  BY <1>1, UpdateSeen
<1>3. IniSeen[walk.k].state = "parsed" <=> Parsed.ok /\ Parsed.config.filename # ""
  BY <1>2, FileSeen, Zenon
<1>4. IniSeen[walk.k].state # "parsed"
  BY <1>3 DEF DiscardFile
<1>5. walk' = [walk EXCEPT !.k = @ + 1] /\ SlotsSeen' = SlotsSeen
  BY SlotsSame DEF DiscardFile
<1>6. QED
  BY <1>1, <1>4, <1>5, SkipFileSeen

LEMMA RunningFileSeen ==
    ASSUME IInv, Named, NEW w \in Slots, RunningFile(w)
    PROVE  W!RunningFile(w)
<1>1. UpdateFile
  BY DEF UpdateFile
<1>2. /\ Parsed.ok /\ IsMatch(w, Parsed.config) /\ IsSpawned(w) /\ UNCHANGED watchConfig
      /\ Keep(w, {w}, FALSE)
  BY DEF RunningFile
<1>3. /\ Typed /\ WalkTyped /\ DiskTyped /\ walk.k \in Files /\ Updating
      /\ WalkSeen = walk /\ IniSeen' = IniSeen /\ KnownSeen' = KnownSeen /\ programs' = programs
  BY <1>1, UpdateSeen
<1>4. Parsed.config.filename # ""
  BY <1>2 DEF IsMatch, IsFirst, Named
<1>5. IniSeen[walk.k].state = "parsed" /\ IniSeen[walk.k].filename = Parsed.config.filename
  BY <1>2, <1>3, <1>4, FileSeen
<1>6. W!Updating("parsed")
  BY <1>1, <1>5, UpdatingSeen
<1>7. W!IsMatch(w, IniSeen[WalkSeen.k])
  <2>1. IsFirst(w, {v \in Active : watchConfig[v].filename = IniSeen[walk.k].filename})
    BY <1>2, <1>5 DEF IsMatch
  <2>2. QED
    BY <1>3, <2>1, OpsSeen
<1>8. W!IsSpawned(w)
  BY <1>2, <1>3, OpsSeen
<1>9. W!Keep(w, {w}, FALSE)
  <2>1. {w} \in SUBSET Slots /\ FALSE \in BOOLEAN
    OBVIOUS
  <2>2. QED
    BY <1>2, <1>3, <2>1, KeepSeen, Zenon
<1>10. SlotsSeen' = SlotsSeen
  BY <1>2, SlotsSame
<1>11. QED
  BY <1>3, <1>6, <1>7, <1>8, <1>9, <1>10, Zenon DEF W!RunningFile, IniSeen, SlotsSeen, WalkSeen, KnownSeen

LEMMA ValidSeen ==
    ASSUME Typed, DiskTyped, walk.k \in Files
    PROVE  W!IsValid(IniSeen[walk.k]) <=> Parsed.ok /\ IsValid(Parsed.config)
<1> DEFINE x == IniSeen[walk.k]
<1> DEFINE c == Parsed.config
<1>1. W!IsValid(x) <=> x.sane /\ \A w \in Active : /\ watchConfig[w].filename # x.filename
                                                   /\ Basename[watchConfig[w].filename] # Basename[x.filename]
  BY OpsSeen
<1>2. /\ x.state = "parsed" <=> Parsed.ok /\ c.filename # ""
      /\ x.state = "parsed" => x.filename = c.filename
      /\ x.sane <=> Parsed.ok /\ Complete(c)
  BY FileSeen
<1>3. Complete(c) => c.filename # ""
  BY CompleteIsNamed
<1>4. IsValid(c) <=> Complete(c) /\ \A w \in Active : Basename[watchConfig[w].filename] # Basename[c.filename]
  BY DEF IsValid
<1> HIDE DEF x, c
<1>5. W!IsValid(x) <=> Parsed.ok /\ IsValid(c)
  BY <1>1, <1>2, <1>3, <1>4
<1>6. QED
  BY <1>5 DEF x, c

\* What a file that is stored is seen as.
LEMMA WatchSeen ==
    ASSUME DiskTyped, walk.k \in Files, Parsed.ok, Complete(Parsed.config)
    PROVE  /\ IniSeen[walk.k].sane /\ IniSeen[walk.k].filename = Parsed.config.filename
           /\ W!WatchOf(IniSeen[walk.k]) =
                [is_active |-> TRUE, filename |-> Parsed.config.filename, settings |-> SettingsOf(Parsed.config)]
<1> DEFINE x == IniSeen[walk.k]
<1> DEFINE c == Parsed.config
<1>1. /\ x.state = "parsed" <=> Parsed.ok /\ c.filename # ""
      /\ x.state = "parsed" => x.filename = c.filename
      /\ x.sane <=> Parsed.ok /\ Complete(c)
      /\ x.sane => x.settings = SettingsOf(c)
  BY FileSeen
<1>2. c.filename # ""
  BY CompleteIsNamed
<1> HIDE DEF x
<1>3. x.sane /\ x.filename = c.filename /\ x.settings = SettingsOf(c)
  BY <1>1, <1>2
<1>4. W!WatchOf(x) = [is_active |-> TRUE, filename |-> c.filename, settings |-> SettingsOf(c)]
  BY <1>3 DEF W!WatchOf
<1>5. QED
  BY <1>3, <1>4 DEF x

LEMMA FirstFree ==
    ASSUME Slots \ Active # {}
    PROVE  \E w \in Slots \ Active : IsFirst(w, Slots \ Active)
<1>1. Slots \ Active \in SUBSET Nat
  BY DEF Slots
<1>2. PICK m \in Slots \ Active : \A k \in Slots \ Active : m <= k
  BY <1>1, NatHasLeast
<1>3. QED
  BY <1>2 DEF IsFirst

LEMMA NewFileSeen ==
    ASSUME IInv, NewFile
    PROVE  W!SkipFile \/ W!NewFile
<1> DEFINE x == IniSeen[walk.k]
<1> DEFINE c == Parsed.config
<1>1. UpdateFile
  BY DEF UpdateFile
<1>2. /\ Parsed.ok /\ \A w \in Slots : ~IsMatch(w, c)
      /\ \/ /\ {w \in Slots \ Active : IsFirst(w, Slots \ Active)} = {}
            /\ walk' = [walk EXCEPT !.k = @ + 1]
            /\ UNCHANGED watchConfig
         \/ \E w \in {w \in Slots \ Active : IsFirst(w, Slots \ Active)} :
                IF IsValid(c)
                THEN SetSlot(w, Activated(c)) /\ Keep(w, {}, TRUE)
                ELSE SetSlot(w, NoWatch) /\ walk' = [walk EXCEPT !.k = @ + 1]
  BY Zenon DEF NewFile
<1>3. /\ Typed /\ WalkTyped /\ DiskTyped /\ SlotsTyped /\ BlankInv /\ walk.k \in Files /\ Updating /\ IsWatch(c)
      /\ WalkSeen = walk /\ WalkSeen' = walk' /\ IniSeen' = IniSeen /\ KnownSeen' = KnownSeen
      /\ programs' = programs
  BY <1>1, UpdateSeen
<1>4. W!IsValid(x) <=> IsValid(c)
  BY <1>2, <1>3, ValidSeen
<1>5. /\ x.state = "parsed" <=> c.filename # ""
      /\ x.state = "parsed" => x.filename = c.filename
  BY <1>2, <1>3, FileSeen
<1>6. ASSUME NEW w \in Slots \ Active, SetSlot(w, NoWatch) PROVE SlotsSeen' = SlotsSeen
  <2>1. watchConfig[w] = NoWatch
    BY <1>3 DEF BlankInv
  <2>2. \A v \in Slots : watchConfig'[v] = watchConfig[v]
    BY <1>3, <1>6, <2>1, Blank, OneSlot
  <2>3. QED
    BY <2>2 DEF SlotsSeen
<1>7. ASSUME NEW w \in Slots \ Active, IsFirst(w, Slots \ Active), IsValid(c),
             SetSlot(w, Activated(c)), Keep(w, {}, TRUE)
      PROVE  W!IsNextAvailable(w) /\ W!SetSlot(w, W!WatchOf(x)) /\ W!Keep(w, {}, TRUE) /\ W!Active # W!Slots
  <2>1. W!IsNextAvailable(w) /\ W!Active # W!Slots
    BY <1>3, <1>7, OpsSeen
  <2>2. Complete(c)
    BY <1>7 DEF IsValid
  <2>3. W!WatchOf(x) = WatchSettings(Activated(c))
    BY <1>2, <1>3, <2>2, WatchSeen, SettingsFacts
  <2>4. IsWatch(Activated(c))
    BY <1>3, StoredAreWatches
  <2>5. W!SetSlot(w, WatchSettings(Activated(c)))
    BY <1>3, <1>7, <2>4, SetSlotSeen
  <2>6. W!Keep(w, {}, TRUE)
    <3>1. {} \in SUBSET Slots /\ TRUE \in BOOLEAN /\ w \in Slots
      OBVIOUS
    <3>2. QED
      BY <1>3, <1>7, <3>1, KeepSeen, Zenon
  <2>7. QED
    BY <2>1, <2>3, <2>5, <2>6
<1>8. CASE x.state # "parsed"
  <2>1. ~IsValid(c)
    BY <1>5, <1>8, CompleteIsNamed DEF IsValid
  <2>2. walk' = [walk EXCEPT !.k = @ + 1] /\ SlotsSeen' = SlotsSeen
    BY <1>2, <1>6, <2>1, SlotsSame
  <2>3. QED
    BY <1>1, <1>8, <2>2, SkipFileSeen
<1>9. CASE x.state = "parsed"
  <2>1. W!Updating("parsed")
    BY <1>1, <1>9, UpdatingSeen
  <2>2. \A w \in Slots : ~W!IsMatch(w, x)
    <3> SUFFICES ASSUME NEW w \in Slots PROVE ~W!IsMatch(w, x)
      OBVIOUS
    <3>1. W!IsMatch(w, x) <=> IsFirst(w, {v \in Active : watchConfig[v].filename = x.filename})
      BY <1>3, OpsSeen
    <3>2. ~IsFirst(w, {v \in Active : watchConfig[v].filename = c.filename})
      BY <1>2 DEF IsMatch
    <3>3. QED
      BY <1>5, <1>9, <3>1, <3>2
  <2>3. W!Slots = Slots /\ W!Active = Active
    BY <1>3, OpsSeen
  <2> DEFINE Result == IF W!Active # W!Slots /\ W!IsValid(x)
                       THEN \E w \in W!Slots : W!IsNextAvailable(w) /\ W!SetSlot(w, W!WatchOf(x)) /\ W!Keep(w, {}, TRUE)
                       ELSE walk' = [walk EXCEPT !.k = @ + 1] /\ SlotsSeen' = SlotsSeen
  <2>4. ASSUME {w \in Slots \ Active : IsFirst(w, Slots \ Active)} = {},
               walk' = [walk EXCEPT !.k = @ + 1],
               UNCHANGED watchConfig
        PROVE  Result
    <3>1. ~(W!Active # W!Slots)
      BY <2>3, <2>4, FirstFree DEF Active
    <3>2. walk' = [walk EXCEPT !.k = @ + 1] /\ SlotsSeen' = SlotsSeen
      BY <2>4, SlotsSame
    <3> HIDE DEF x
    <3>3. QED
      BY <3>1, <3>2, Zenon
  <2>5. ASSUME NEW w \in Slots \ Active, IsFirst(w, Slots \ Active),
               IF IsValid(c)
               THEN SetSlot(w, Activated(c)) /\ Keep(w, {}, TRUE)
               ELSE SetSlot(w, NoWatch) /\ walk' = [walk EXCEPT !.k = @ + 1]
        PROVE  Result
    <3>1. CASE IsValid(c)
      <4>1. SetSlot(w, Activated(c)) /\ Keep(w, {}, TRUE)
        BY <2>5, <3>1
      <4>2. W!IsNextAvailable(w) /\ W!SetSlot(w, W!WatchOf(x)) /\ W!Keep(w, {}, TRUE) /\ W!Active # W!Slots
        BY <1>7, <2>5, <3>1, <4>1
      <4>3. w \in W!Slots
        BY <2>3
      <4> HIDE DEF x
      <4>4. QED
        BY <1>4, <3>1, <4>2, <4>3, Zenon
    <3>2. CASE ~IsValid(c)
      <4>1. walk' = [walk EXCEPT !.k = @ + 1] /\ SlotsSeen' = SlotsSeen
        BY <1>6, <2>5, <3>2
      <4> HIDE DEF x
      <4>2. QED
        BY <1>4, <3>2, <4>1, Zenon
    <3>3. QED
      BY <3>1, <3>2
  <2>6. Result
    <3> DEFINE First == {w \in Slots \ Active : IsFirst(w, Slots \ Active)}
    <3> DEFINE Step(w) == IF IsValid(c)
                          THEN SetSlot(w, Activated(c)) /\ Keep(w, {}, TRUE)
                          ELSE SetSlot(w, NoWatch) /\ walk' = [walk EXCEPT !.k = @ + 1]
    <3>1. ASSUME NEW w \in First, Step(w) PROVE Result
      <4>1. w \in Slots \ Active /\ IsFirst(w, Slots \ Active)
        OBVIOUS
      <4> HIDE DEF Result, First
      <4>2. QED
        BY <2>5, <3>1, <4>1, Zenon
    <3>2. ASSUME First = {}, walk' = [walk EXCEPT !.k = @ + 1], UNCHANGED watchConfig PROVE Result
      BY <2>4, <3>2, Zenon
    <3>3. \/ First = {} /\ walk' = [walk EXCEPT !.k = @ + 1] /\ UNCHANGED watchConfig
          \/ \E w \in First : Step(w)
      BY <1>2
    <3> HIDE DEF First, Result, Step
    <3>4. QED
      BY <3>1, <3>2, <3>3
  <2>7. W!NewFile
    <3>1. /\ W!Updating("parsed")
          /\ \A w \in W!Slots : ~W!IsMatch(w, IniSeen[WalkSeen.k])
          /\ IF W!Active # W!Slots /\ W!IsValid(IniSeen[WalkSeen.k])
             THEN \E w \in W!Slots : /\ W!IsNextAvailable(w) /\ W!SetSlot(w, W!WatchOf(IniSeen[WalkSeen.k]))
                                     /\ W!Keep(w, {}, TRUE)
             ELSE WalkSeen' = [WalkSeen EXCEPT !.k = @ + 1] /\ SlotsSeen' = SlotsSeen
      BY <1>3, <2>1, <2>2, <2>3, <2>6, Zenon
    <3>2. QED
      BY <1>3, <3>1, Zenon DEF W!NewFile, IniSeen, SlotsSeen, WalkSeen, KnownSeen
  <2>8. QED
    BY <2>7
<1>10. QED
  BY <1>8, <1>9

LEMMA KnownFileSeen ==
    ASSUME IInv, Named, NEW w \in Slots, KnownFile(w)
    PROVE  W!KnownFile(w)
<1> DEFINE x == IniSeen[walk.k]
<1> DEFINE c == Parsed.config
<1> DEFINE merged == Merged(watchConfig[w], c)
<1>1. UpdateFile
  BY DEF UpdateFile
<1>2. /\ Parsed.ok /\ IsMatch(w, c) /\ ~IsSpawned(w)
      /\ IF Complete(c)
         THEN SetSlot(w, merged) /\ Keep(w, {}, merged # watchConfig[w])
         ELSE SetSlot(w, NoWatch) /\ walk' = [walk EXCEPT !.k = @ + 1, !.notify = TRUE]
  BY DEF KnownFile
<1>3. /\ Typed /\ WalkTyped /\ DiskTyped /\ SlotsTyped /\ walk.k \in Files /\ Updating /\ IsWatch(c)
      /\ WalkSeen = walk /\ WalkSeen' = walk' /\ IniSeen' = IniSeen /\ KnownSeen' = KnownSeen
      /\ programs' = programs
  BY <1>1, UpdateSeen
<1>4. /\ w \in Active /\ watchConfig[w].filename = c.filename /\ c.filename # ""
      /\ IsWatch(watchConfig[w]) /\ watchConfig[w].is_active = TRUE
  <2>1. w \in Active /\ watchConfig[w].filename = c.filename
    BY <1>2 DEF IsMatch, IsFirst
  <2>2. QED
    BY <1>3, <2>1 DEF Named, SlotsTyped, IsWatch, Active
<1>5. /\ x.state = "parsed" /\ x.filename = c.filename
      /\ x.sane <=> Complete(c)
  BY <1>2, <1>3, <1>4, FileSeen
<1>6. W!Updating("parsed")
  BY <1>1, <1>5, UpdatingSeen
<1>7. W!IsMatch(w, x)
  <2>1. IsFirst(w, {v \in Active : watchConfig[v].filename = x.filename})
    BY <1>2, <1>5 DEF IsMatch
  <2>2. QED
    BY <1>3, <2>1, OpsSeen
<1>8. ~W!IsSpawned(w)
  BY <1>2, <1>3, OpsSeen
<1>9. ASSUME Complete(c)
      PROVE  W!SetSlot(w, W!WatchOf(x)) /\ W!Keep(w, {}, W!WatchOf(x) # SlotsSeen[w])
  <2>1. SetSlot(w, merged) /\ Keep(w, {}, merged # watchConfig[w])
    BY <1>2, <1>9
  <2>2. /\ WatchSettings(merged) = [is_active |-> TRUE, filename |-> c.filename, settings |-> SettingsOf(c)]
        /\ merged = watchConfig[w] <=> WatchSettings(merged) = WatchSettings(watchConfig[w])
    BY <1>3, <1>4, MergedFacts
  <2>3. W!WatchOf(x) = WatchSettings(merged)
    BY <1>2, <1>3, <1>9, <2>2, WatchSeen
  <2>4. IsWatch(merged)
    BY <1>3, <1>4, StoredAreWatches
  <2> HIDE DEF merged, x, c
  <2>5. W!SetSlot(w, WatchSettings(merged))
    BY <1>3, <2>1, <2>4, SetSlotSeen
  <2>6. SlotsSeen[w] = WatchSettings(watchConfig[w])
    BY DEF SlotsSeen
  <2>7. (merged # watchConfig[w]) = (W!WatchOf(x) # SlotsSeen[w])
    BY <2>2, <2>3, <2>6
  <2>8. W!Keep(w, {}, merged # watchConfig[w])
    <3>1. {} \in SUBSET Slots /\ (merged # watchConfig[w]) \in BOOLEAN
      OBVIOUS
    <3>2. QED
      BY <1>3, <2>1, <3>1, KeepSeen, Zenon
  <2>9. QED
    BY <2>3, <2>5, <2>7, <2>8, Zenon
<1>10. ASSUME ~Complete(c)
       PROVE  W!SetSlot(w, W!Unused) /\ WalkSeen' = [WalkSeen EXCEPT !.k = @ + 1, !.notify = TRUE]
  <2>1. SetSlot(w, NoWatch) /\ walk' = [walk EXCEPT !.k = @ + 1, !.notify = TRUE]
    BY <1>2, <1>10
  <2>2. W!SetSlot(w, WatchSettings(NoWatch))
    BY <1>3, <2>1, Blank, SetSlotSeen
  <2>3. WatchSettings(NoWatch) = W!Unused
    BY Blank, SettingsFacts
  <2>4. QED
    BY <1>3, <2>1, <2>2, <2>3
<1>11. /\ W!Updating("parsed") /\ W!IsMatch(w, IniSeen[WalkSeen.k]) /\ ~W!IsSpawned(w)
       /\ IF IniSeen[WalkSeen.k].sane
          THEN /\ W!SetSlot(w, W!WatchOf(IniSeen[WalkSeen.k]))
               /\ W!Keep(w, {}, W!WatchOf(IniSeen[WalkSeen.k]) # SlotsSeen[w])
          ELSE W!SetSlot(w, W!Unused) /\ WalkSeen' = [WalkSeen EXCEPT !.k = @ + 1, !.notify = TRUE]
  <2> HIDE DEF c
  <2>1. QED
    BY <1>3, <1>5, <1>6, <1>7, <1>8, <1>9, <1>10, Zenon
<1>12. QED
  BY <1>3, <1>11, Zenon DEF W!KnownFile, IniSeen, SlotsSeen, WalkSeen, KnownSeen

LEMMA PurgeStaleSeen ==
    ASSUME IInv, PurgeStale
    PROVE  W!PurgeStale
<1>1. Typed /\ SlotsTyped /\ WalkTyped
  BY DEF IInv, Typed
<1> DEFINE stale == Active \ walk.kept
<1>2. /\ walk.phase = "update" /\ walk.k > FILES
      /\ watchConfig' = [w \in Slots |-> IF w \in stale THEN NoWatch ELSE watchConfig[w]]
      /\ walk' = [walk EXCEPT !.phase = "setup", !.k = 0, !.notify = @ \/ stale # {}]
      /\ UNCHANGED <<disk, programs, known>>
  BY DEF PurgeStale, OnlyTheWatches
<1>3. WalkSeen = walk
  BY <1>1, <1>2, WalkSeenIs DEF WalkSeen, WalkTyped
<1>4. WalkSeen' = [WalkSeen EXCEPT !.phase = "setup", !.k = 0, !.notify = @ \/ stale # {}]
  <2>1. walk \in Walks /\ "setup" \in Phases /\ (walk.notify \/ stale # {}) \in BOOLEAN
    BY <1>1 DEF WalkTyped, Walks, Phases
  <2> HIDE DEF stale
  <2>2. walk' \in Walks /\ walk'.phase = "setup"
    BY <1>2, <2>1 DEF Walks
  <2>3. WalkSeen' = walk'
    BY <2>2, WalkSeenIs DEF WalkSeen
  <2>4. QED
    BY <1>2, <1>3, <2>3, Zenon
<1>5. W!Active = Active /\ W!Slots = Slots
  BY <1>1, OpsSeen
<1>6. SlotsSeen' = [w \in Slots |-> IF w \in stale THEN W!Unused ELSE SlotsSeen[w]]
  <2> HIDE DEF stale
  <2>1. \A w \in Slots : watchConfig'[w] = IF w \in stale THEN NoWatch ELSE watchConfig[w]
    BY <1>2
  <2>2. WatchSettings(NoWatch) = W!Unused
    BY Blank, SettingsFacts
  <2>3. \A w \in Slots : WatchSettings(watchConfig'[w]) = IF w \in stale THEN W!Unused ELSE SlotsSeen[w]
    BY <2>1, <2>2 DEF SlotsSeen
  <2>4. SlotsSeen' = [w \in Slots |-> WatchSettings(watchConfig'[w])]
    BY DEF SlotsSeen
  <2>5. QED
    BY <2>3, <2>4
<1>7. IniSeen' = IniSeen /\ KnownSeen' = KnownSeen /\ programs' = programs
  BY <1>2 DEF IniSeen, KnownSeen
<1>8. stale = W!Active \ WalkSeen.kept
  BY <1>3, <1>5
<1>9. WalkSeen.phase = "update" /\ WalkSeen.k > FILES
  BY <1>2, <1>3
<1> HIDE DEF stale
<1>10. /\ SlotsSeen' = [w \in W!Slots |-> IF w \in W!Active \ WalkSeen.kept THEN W!Unused ELSE SlotsSeen[w]]
       /\ WalkSeen' = [WalkSeen EXCEPT !.phase = "setup", !.k = 0,
                                       !.notify = @ \/ W!Active \ WalkSeen.kept # {}]
  BY <1>4, <1>5, <1>6, <1>8, Zenon
<1>11. QED
  BY <1>7, <1>9, <1>10, Zenon DEF W!PurgeStale, IniSeen, SlotsSeen, WalkSeen, KnownSeen

\* The steps between two walks.
LEMMA OtherStepSeen ==
    ASSUME IInv, Named, OtherStep
    PROVE  [W!Next]_(W!vars)
<1>1. Typed /\ DiskTyped /\ SlotsTyped /\ WalkTyped /\ walk \in Walks
  BY DEF IInv, Typed, WalkTyped
<1>2. /\ watchConfig' = watchConfig /\ WalkTyped' /\ walk' \in Walks
  BY <1>1, OtherStepFacts DEF WalkTyped
<1>3. SlotsSeen' = SlotsSeen
  BY <1>2, SlotsSame
<1>4. W!Slots = Slots /\ W!Files = Files /\ W!Active = Active
  BY <1>1, OpsSeen
<1>5. disk' = disk => IniSeen' = IniSeen
  BY DEF IniSeen
<1>6. known' = known => KnownSeen' = KnownSeen
  BY DEF KnownSeen
<1>7. walk' = walk => WalkSeen' = WalkSeen
  BY DEF WalkSeen
<1>8. /\ walk.phase \notin {"loaded", "aborted"} => WalkSeen = walk
      /\ walk'.phase \notin {"loaded", "aborted"} => WalkSeen' = walk'
  BY <1>1, <1>2, WalkSeenIs DEF WalkSeen
<1>9. ASSUME NEW phase, NEW k, phase \notin {"loaded", "aborted"}, walk' = Walk(phase, k)
      PROVE  WalkSeen' = W!Walk(phase, k)
  <2>1. walk'.phase = phase
    BY <1>9 DEF Walk
  <2>2. WalkSeen' = walk'
    BY <1>8, <1>9, <2>1
  <2>3. QED
    BY <1>9, <2>2 DEF Walk, W!Walk
<1>10. ASSUME UNCHANGED vars \/ Aborted \/ Undefined PROVE UNCHANGED W!vars
  <2>1. UNCHANGED <<disk, programs, walk, known>>
    BY <1>10 DEF vars, Aborted, Undefined
  <2>2. IniSeen' = IniSeen /\ programs' = programs /\ WalkSeen' = WalkSeen /\ KnownSeen' = KnownSeen
    BY <1>5, <1>6, <1>7, <2>1
  <2>3. QED
    BY <1>3, <2>2, Zenon DEF W!vars, IniSeen, SlotsSeen, WalkSeen, KnownSeen
<1>11. ASSUME BeginUpdate PROVE W!BeginUpdate
  <2>1. /\ walk.phase \in {"loaded", "session"} /\ walk' = Walk("update", 1)
        /\ known' = watchConfig /\ disk' = disk /\ programs' = programs
    BY <1>11 DEF BeginUpdate
  <2>2. \/ WalkSeen.phase = "load" /\ WalkSeen.k > FILES
        \/ WalkSeen.phase = "session"
    <3>1. CASE walk.phase = "loaded"
      <4>1. WalkSeen = [walk EXCEPT !.phase = "load"]
        BY <1>1, <3>1, WalkSeenIs DEF WalkSeen
      <4>2. walk.k > FILES
        BY <3>1 DEF Named
      <4>3. QED
        BY <1>1, <4>1, <4>2 DEF Walks
    <3>2. CASE walk.phase = "session"
      BY <1>8, <3>2
    <3>3. QED
      BY <2>1, <3>1, <3>2
  <2>3. WalkSeen' = W!Walk("update", 1)
    BY <1>9, <2>1
  <2>4. KnownSeen' = SlotsSeen /\ IniSeen' = IniSeen
    BY <1>5, <2>1 DEF KnownSeen, SlotsSeen
  <2>5. QED
    BY <1>3, <2>1, <2>2, <2>3, <2>4, Zenon DEF W!BeginUpdate, IniSeen, SlotsSeen, WalkSeen, KnownSeen
<1>12. ASSUME SetupWatch PROVE W!SetupWatch
  <2>1. /\ walk.phase = "setup" /\ walk.k < WATCH_MAX /\ walk' = [walk EXCEPT !.k = @ + 1]
        /\ UNCHANGED <<disk, programs, known>>
    BY <1>12 DEF SetupWatch, OnlyTheWatches
  <2>2. walk'.phase = "setup"
    BY <1>1, <2>1 DEF Walks
  <2>3. /\ WalkSeen.phase = "setup" /\ WalkSeen.k < WATCH_MAX
        /\ WalkSeen' = [WalkSeen EXCEPT !.k = @ + 1]
    BY <1>8, <2>1, <2>2
  <2>4. IniSeen' = IniSeen /\ KnownSeen' = KnownSeen /\ programs' = programs
    BY <1>5, <1>6, <2>1
  <2>5. QED
    BY <1>3, <2>3, <2>4, Zenon DEF W!SetupWatch, IniSeen, SlotsSeen, WalkSeen, KnownSeen
<1>13. ASSUME StartListening PROVE W!StartListening
  <2>1. /\ walk.phase = "setup" /\ walk.k = WATCH_MAX /\ walk' = Walk("idle", 0)
        /\ known' = watchConfig /\ disk' = disk /\ programs' = programs
    BY <1>13 DEF StartListening
  <2>2. WalkSeen.phase = "setup" /\ WalkSeen.k = WATCH_MAX /\ WalkSeen' = W!Walk("idle", 0)
    BY <1>8, <1>9, <2>1
  <2>3. KnownSeen' = SlotsSeen /\ IniSeen' = IniSeen
    BY <1>5, <2>1 DEF KnownSeen, SlotsSeen
  <2>4. QED
    BY <1>3, <2>1, <2>2, <2>3, Zenon DEF W!StartListening, IniSeen, SlotsSeen, WalkSeen, KnownSeen
<1>14. ASSUME StartSession PROVE W!StartSession
  <2>1. /\ walk.phase = "idle" /\ walk' = Walk("session", 0) /\ UNCHANGED <<disk, programs, known>>
    BY <1>14 DEF StartSession, OnlyTheWatches
  <2>2. WalkSeen.phase = "idle" /\ WalkSeen' = W!Walk("session", 0)
    BY <1>8, <1>9, <2>1
  <2>3. IniSeen' = IniSeen /\ KnownSeen' = KnownSeen /\ programs' = programs
    BY <1>5, <1>6, <2>1
  <2>4. QED
    BY <1>3, <2>2, <2>3, Zenon DEF W!StartSession, IniSeen, SlotsSeen, WalkSeen, KnownSeen
<1>15. ASSUME NEW w \in Slots, Launch(w) PROVE W!Launch(w)
  <2>1. /\ walk.phase = "idle" /\ w \in Active /\ ~IsSpawned(w)
        /\ programs' = [programs EXCEPT ![w] = watchConfig[w].filename]
        /\ UNCHANGED <<disk, walk, known>>
    BY <1>15 DEF Launch
  <2>2. SlotsSeen[w].filename = watchConfig[w].filename
    BY <1>1, SettingsFacts DEF SlotsTyped, SlotsSeen
  <2>3. WalkSeen.phase = "idle" /\ w \in W!Active /\ ~W!IsSpawned(w)
    BY <1>1, <1>4, <1>8, <2>1, OpsSeen
  <2>4. programs' = [programs EXCEPT ![w] = SlotsSeen[w].filename]
    BY <2>1, <2>2
  <2>5. IniSeen' = IniSeen /\ KnownSeen' = KnownSeen /\ WalkSeen' = WalkSeen
    BY <1>5, <1>6, <1>7, <2>1
  <2>6. QED
    BY <1>3, <2>3, <2>4, <2>5, Zenon DEF W!Launch, IniSeen, SlotsSeen, WalkSeen, KnownSeen
<1>16. ASSUME NEW w \in Slots, ProgramEnds(w) PROVE W!ProgramEnds(w)
  <2>1. IsSpawned(w) /\ programs' = [programs EXCEPT ![w] = ""] /\ UNCHANGED <<disk, walk, known>>
    BY <1>16 DEF ProgramEnds
  <2>2. W!IsSpawned(w)
    BY <1>1, <2>1, OpsSeen
  <2>3. IniSeen' = IniSeen /\ KnownSeen' = KnownSeen /\ WalkSeen' = WalkSeen
    BY <1>5, <1>6, <1>7, <2>1
  <2>4. QED
    BY <1>3, <2>1, <2>2, <2>3, Zenon DEF W!ProgramEnds, IniSeen, SlotsSeen, WalkSeen, KnownSeen
<1>17. ASSUME NEW f \in Files, NEW text \in Texts[f], EditFile(f, text)
       PROVE  W!EditFile(f, ContentsOf[text]) /\ ContentsOf[text] \in W!Contents
  <2>1. /\ walk.phase = "session" /\ disk' = [disk EXCEPT !.watches[f] = text]
        /\ UNCHANGED <<programs, walk, known>>
    BY <1>17 DEF EditFile
  <2>2. disk'.watches = [disk.watches EXCEPT ![f] = text] /\ disk.watches = [g \in Files |-> disk.watches[g]]
    BY <1>1, <2>1 DEF DiskTyped, Disks
  <2>3. \A g \in Files : disk'.watches[g] = IF g = f THEN text ELSE disk.watches[g]
    BY <2>2
  <2>4. IniSeen' = [IniSeen EXCEPT ![f] = ContentsOf[text]]
    <3> DEFINE seen(g) == ContentsOf[g]
    <3>1. \A g \in Files : seen(disk'.watches[g]) = IF g = f THEN seen(text) ELSE seen(disk.watches[g])
      BY <2>3
    <3>2. IniSeen = [g \in Files |-> seen(disk.watches[g])] /\ IniSeen' = [g \in Files |-> seen(disk'.watches[g])]
      BY Zenon DEF IniSeen
    <3> HIDE DEF seen
    <3>3. IniSeen' = [IniSeen EXCEPT ![f] = seen(text)]
      BY <3>1, <3>2
    <3>4. QED
      BY <3>3 DEF seen
  <2>5. WalkSeen.phase = "session" /\ WalkSeen' = WalkSeen /\ KnownSeen' = KnownSeen /\ programs' = programs
    BY <1>6, <1>7, <1>8, <2>1
  <2>6. ContentsOf[text] \in W!Contents
    BY ContentsFacts, Zenon
  <2>7. QED
    BY <1>3, <2>4, <2>5, <2>6, Zenon DEF W!EditFile, IniSeen, SlotsSeen, WalkSeen, KnownSeen
<1>18. W!Next \/ UNCHANGED W!vars
  <2>1. CASE \E w \in Slots : Launch(w) \/ ProgramEnds(w)
    <3>1. \E w \in W!Slots : W!Launch(w) \/ W!ProgramEnds(w)
      BY <1>4, <1>15, <1>16, <2>1
    <3>2. QED
      BY <3>1, Zenon DEF W!Next
  <2>2. CASE \E f \in Files : \E text \in Texts[f] : EditFile(f, text)
    <3>1. \E f \in W!Files, x \in W!Contents : W!EditFile(f, x)
      BY <1>4, <1>17, <2>2, Zenon
    <3>2. QED
      BY <3>1, Zenon DEF W!Next
  <2>3. BeginUpdate \/ SetupWatch \/ StartListening \/ StartSession => W!Next
    BY <1>11, <1>12, <1>13, <1>14, Zenon DEF W!Next
  <2>4. QED
    BY <1>10, <2>1, <2>2, <2>3, Zenon DEF OtherStep
<1>19. QED
  BY <1>18

\* The daemon's files are none of WatchConfig's concern.
LEMMA LoadDaemonSeen ==
    ASSUME IInv, LoadDaemon
    PROVE  UNCHANGED W!vars
<1>1. walk \in Walks /\ walk.phase = "load"
  BY DEF IInv, Typed, WalkTyped, LoadDaemon
<1>2. PICK phase \in {"loaded", "aborted"} : walk' = [walk EXCEPT !.phase = phase]
  BY DEF LoadDaemon
<1>3. UNCHANGED <<disk, watchConfig, programs, known>>
  BY DEF LoadDaemon
<1>4. WalkSeen = walk
  BY <1>1, WalkSeenIs DEF WalkSeen
<1>5. WalkSeen' = walk
  <2>1. walk' \in Walks /\ walk'.phase \in {"loaded", "aborted"}
    BY <1>1, <1>2 DEF Walks, Phases
  <2>2. WalkSeen' = [walk' EXCEPT !.phase = "load"]
    BY <2>1, WalkSeenIs DEF WalkSeen
  <2>3. QED
    BY <1>1, <1>2, <2>2 DEF Walks
<1>6. IniSeen' = IniSeen /\ SlotsSeen' = SlotsSeen /\ KnownSeen' = KnownSeen /\ programs' = programs
  BY <1>3 DEF IniSeen, SlotsSeen, KnownSeen
<1>7. QED
  BY <1>4, <1>5, <1>6, Zenon DEF W!vars, IniSeen, SlotsSeen, WalkSeen, KnownSeen

LEMMA InitSeen == Init => W!Init
<1> SUFFICES ASSUME Init PROVE W!Init
  OBVIOUS
<1>1. Typed /\ DiskTyped
  BY IInvInit DEF IInv, Typed
<1>2. W!Slots = Slots /\ W!Files = Files
  BY <1>1, OpsSeen
<1>3. IniSeen \in [Files -> W!Contents]
  <2>1. \A f \in Files : ContentsOf[disk.watches[f]] \in W!Contents
    BY <1>1, ContentsFacts, Zenon DEF DiskTyped
  <2>2. QED
    BY <2>1, Zenon DEF IniSeen
<1>4. WatchSettings(NoWatch) = W!Unused
  BY Blank, SettingsFacts
<1>5. /\ watchConfig = [w \in Slots |-> NoWatch] /\ known = watchConfig
      /\ programs = [w \in Slots |-> ""] /\ walk = Walk("load", 1)
  BY DEF Init
<1>6. SlotsSeen = [w \in Slots |-> W!Unused] /\ KnownSeen = SlotsSeen
  <2>1. \A w \in Slots : watchConfig[w] = NoWatch
    BY <1>5
  <2>2. QED
    BY <1>4, <1>5, <2>1, Zenon DEF SlotsSeen, KnownSeen
<1>7. WalkSeen = W!Walk("load", 1)
  BY <1>5 DEF WalkSeen, Walk, W!Walk
<1>8. QED
  BY <1>2, <1>3, <1>5, <1>6, <1>7, Zenon DEF W!Init, IniSeen, SlotsSeen, WalkSeen, KnownSeen

LEMMA NextSeen == IInv /\ Named /\ [Next]_vars => [W!Next]_(W!vars)
<1> SUFFICES ASSUME IInv, Named, [Next]_vars PROVE [W!Next]_(W!vars)
  OBVIOUS
<1>1. W!Slots = Slots
  BY OpsSeen DEF IInv
<1>2. CASE LoadFile
  <2>1. W!LoadFile
    BY <1>2, LoadFileSeen
  <2>2. QED
    BY <2>1, Zenon DEF W!Next
<1>3. CASE LoadDaemon
  BY <1>3, LoadDaemonSeen
<1>4. CASE DiscardFile \/ NewFile
  <2>1. W!SkipFile \/ W!NewFile
    BY <1>4, DiscardFileSeen, NewFileSeen
  <2>2. QED
    BY <2>1, Zenon DEF W!Next
<1>5. CASE \E w \in Slots : RunningFile(w) \/ KnownFile(w)
  <2>1. \E w \in W!Slots : W!RunningFile(w) \/ W!KnownFile(w)
    BY <1>1, <1>5, RunningFileSeen, KnownFileSeen, Zenon
  <2>2. QED
    BY <2>1, Zenon DEF W!Next
<1>6. CASE PurgeStale
  <2>1. W!PurgeStale
    BY <1>6, PurgeStaleSeen
  <2>2. QED
    BY <2>1, Zenon DEF W!Next
<1>7. CASE OtherStep
  BY <1>7, OtherStepSeen
<1>8. QED
  BY <1>2, <1>3, <1>4, <1>5, <1>6, <1>7, Zenon DEF Next, OtherStep

LEMMA NamedInit == Init => Named
<1> SUFFICES ASSUME Init PROVE Named
  OBVIOUS
<1>1. Active = {}
  BY Blank DEF Init, Active
<1>2. walk.phase = "load"
  BY DEF Init, Walk
<1>3. QED
  BY <1>1, <1>2 DEF Named

-----------------------------------------------------------------------------
(* Theorems.                                                               *)

\* Settings keep their types, strings fit their arrays with their NULs, and the walk
\* stays within the arrays it indexes, whatever the files say.
THEOREM TypeCorrect == Spec => []TypeOK
<1>1. IInv => TypeOK
  <2> SUFFICES ASSUME IInv PROVE TypeOK
    OBVIOUS
  <2>1. IsDaemon(daemonConfig) /\ SlotsTyped /\ WalkTyped
    BY DEF IInv, Typed
  <2>2. walk.count \in 0 .. WATCH_MAX
    BY <2>1, WalkFacts
  <2>3. QED
    BY <2>1, <2>2 DEF TypeOK, IsDaemon, SlotsTyped, WalkTyped, IsWatch
<1>2. QED
  BY <1>1, Invariance, PTL

\* KFMon runs just when both of its daemon files are well-formed, with the last word
\* of kfmon.ini and kfmon.user.ini on each key, for good.
THEOREM DaemonTakesItsFiles == Spec => []DaemonAsWritten
<1>1. IInv => DaemonAsWritten
  BY DEF IInv
<1>2. QED
  BY <1>1, Invariance, PTL

\* A reading to the code's lengths is one that leaves the last character open.
LEMMA ExactIsEither ==
    ASSUME NEW text, NEW valid, NEW keys, NEW struct, NEW zeroed
    PROVE  /\ WellFormed(text, valid) => WellFormedAtTheLimit(text, valid)
           /\ Holds(struct, text, keys, zeroed) => HoldsAtTheLimit(struct, text, keys, zeroed)
  BY Zenon DEF WellFormed, WellFormedAtTheLimit, Holds, HoldsAtTheLimit

\* A loaded or updated watch has just the settings of one of the files, but for the
\* last character of strings as long as their arrays.  (WrittenInv leaves none open.)
THEOREM WatchesTakeTheirFiles == Spec => []SettingsAsWritten
<1>1. IInv => SettingsAsWritten
  <2> SUFFICES ASSUME IInv, NEW w \in Active \ walk.skipped, walk.phase = "loaded" \/ UpdateDone
               PROVE  LET watch == watchConfig[w]
                          stale == IF UpdateDone /\ ~watch.do_db_update THEN DbKeys ELSE {}
                      IN  /\ Complete(watch)
                          /\ \E f \in Files :
                              /\ WellFormedAtTheLimit(disk.watches[f], WatchKeys \cup Ignored)
                              /\ HoldsAtTheLimit(watch, disk.watches[f], WatchKeys \ stale, NoWatch)
    BY Zenon DEF SettingsAsWritten
  <2>1. Written(watchConfig[w], Stale(watchConfig[w]))
    BY DEF IInv, WrittenInv
  <2>2. Stale(watchConfig[w]) = IF UpdateDone /\ ~watchConfig[w].do_db_update THEN DbKeys ELSE {}
    BY DEF Stale, UpdateDone
  <2>3. PICK f \in Files :
          /\ WellFormed(disk.watches[f], WatchKeys \cup Ignored)
          /\ Holds(watchConfig[w], disk.watches[f], WatchKeys \ Stale(watchConfig[w]), NoWatch)
    BY <2>1, Zenon DEF Written
  <2>4. /\ WellFormedAtTheLimit(disk.watches[f], WatchKeys \cup Ignored)
        /\ HoldsAtTheLimit(watchConfig[w], disk.watches[f], WatchKeys \ Stale(watchConfig[w]), NoWatch)
    BY <2>3, ExactIsEither, Zenon
  <2>5. QED
    BY <2>1, <2>2, <2>4, Zenon DEF Written
<1>2. QED
  BY <1>1, Invariance, PTL

\* Whatever WatchConfig promises of its watches holds of KFMon reading its files key
\* by key.
THEOREM RefinesWatchConfig == Spec => ImplementsWatchConfig
<1>1. Spec => [](IInv /\ Named)
  <2>1. Spec => []Named
    BY Invariance, NamedInit, NamedNext, PTL DEF Spec
  <2>2. QED
    BY <2>1, Invariance, PTL
<1>2. Spec => W!Spec
  BY <1>1, InitSeen, NextSeen, PTL DEF Spec, W!Spec
<1>3. QED
  BY <1>2 DEF ImplementsWatchConfig
=============================================================================
