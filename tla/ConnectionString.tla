-------------------------- MODULE ConnectionString --------------------------
(***************************************************************************)
(* From the configuration to the settings of a connection: LoadConfig's    *)
(* defaults, the connection string resolveDSN or buildPresetDSN formats,   *)
(* and what pgx reads in it.                                               *)
(*                                                                         *)
(* A text is a sequence of words, "=" and " ".  Quotes, backslashes and    *)
(* URL-style DSNs, which dburl rewrites to this form, are left out.        *)
(***************************************************************************)
EXTENDS Integers, SequencesExt, GoMap

CONSTANTS
  Hosts, Users, Passwords, Databases, Ports, Schemas, DSNs,
                \* what the fields may be: << >> or 0 when blank
  Decimal       \* how a port is written

VARIABLES
  place,        \* where the fields are written: "postgresql" or "preset"
  fields,       \* what config.yml says there
  stage,        \* "start", "reading", "connected" or "failed"
  unread,       \* what pgx has not read yet of the connection string
  settings      \* key -> value, as pgx read them

stringVars == <<place, fields, stage, unread, settings>>

Blank == " "
Equals == "="

(* A value without blanks.                                                 *)
IsWord(t) == t \in Seq(STRING) /\ t # << >> /\ \A i \in 1 .. Len(t) : t[i] # Blank

ASSUME FieldsAssumption ==
  /\ \A t \in Hosts \cup Users \cup Passwords \cup Databases \cup Schemas :
       t = << >> \/ IsWord(t)
  /\ \A p \in (Ports \ {0}) \cup {5432} : IsWord(Decimal[p])

Fields ==
  [host : Hosts, user : Users, password : Passwords, database : Databases,
   port : Ports, schema : Schemas, dsn : DSNs]

-----------------------------------------------------------------------------
Default(value, default) == IF value = << >> THEN default ELSE value

(* The default tags of Config, which configor gives to blank fields, but   *)
(* not to those of the structs in a map: the presets.                      *)
Loaded(c) ==
  [c EXCEPT !.host = Default(@, <<"localhost">>),
            !.user = Default(@, <<"postgres">>),
            !.database = Default(@, <<"postgres">>),
            !.schema = Default(@, <<"public">>),
            !.port = IF @ = 0 THEN 5432 ELSE @]

(* "key=value", and after a space the rest of the string.                  *)
Setting(key, value, more) ==
  <<key, Equals>> \o (value \o (IF more = << >> THEN << >> ELSE <<Blank>> \o more))

(* sslmode goes the way of schema.                                         *)
Formatted(c, searchPath) ==
  Setting("host", c.host,
    Setting("port", Decimal[c.port],
      Setting("user", c.user,
        Setting("password", c.password,
          Setting("dbname", c.database, searchPath)))))

SearchPath(schema) == Setting("search_path", schema, << >>)

(* Without a DSN it needs a host and a user.                               *)
Resolvable(c) == c.dsn # << >> \/ (c.host # << >> /\ c.user # << >>)

resolveDSN(c) ==
  IF c.dsn # << >> THEN c.dsn
  ELSE Formatted([c EXCEPT !.database = Default(@, <<"postgres">>)],
                 IF c.schema = << >> THEN << >> ELSE SearchPath(c.schema))

(* Mutant: a preset's database has no default.                             *)
PresetAsWritten(p) ==
  IF p.dsn # << >> THEN p.dsn
  ELSE Formatted([p EXCEPT !.port = IF @ = 0 THEN 5432 ELSE @],
                 SearchPath(Default(p.schema, <<"public">>)))

buildPresetDSN(p) ==
  IF p.dsn # << >> THEN p.dsn
  ELSE Formatted([p EXCEPT !.database = Default(@, <<"postgres">>),
                           !.port = IF @ = 0 THEN 5432 ELSE @],
                 SearchPath(Default(p.schema, <<"public">>)))

-----------------------------------------------------------------------------
StringInit ==
  /\ place \in {"postgresql", "preset"}
  /\ fields \in Fields
  /\ stage = "start"
  /\ unread = << >>
  /\ settings = EmptyMap

(* A call without dsn and preset.                                          *)
ResolveConfig ==
  /\ place = "postgresql"
  /\ stage = "start" /\ stage' = "reading"
  /\ Resolvable(Loaded(fields))
  /\ unread' = resolveDSN(Loaded(fields))
  /\ UNCHANGED <<place, fields, settings>>

(* A call with the preset.                                                 *)
ResolvePreset ==
  /\ place = "preset"
  /\ stage = "start" /\ stage' = "reading"
  /\ Resolvable(fields)
  /\ unread' = buildPresetDSN(fields)
  /\ UNCHANGED <<place, fields, settings>>

(* External: pgx's parseKeywordValueSettings, to which                     *)
(* createConnectionWithReadOnly hands the string.  Each turn of its loop   *)
(* reads what is before the next "=" as a key, skips the blanks after it,  *)
(* and takes what is there, up to the next blank, for the value.           *)
Trim(t) ==
  LET words == {i \in 1 .. Len(t) : t[i] # Blank}
  IN IF words = {} THEN << >> ELSE SubSeq(t, Min(words), Max(words))

WordFrom(t, i) ==
  CHOOSE j \in i .. Len(t) + 1 :
    (\A k \in i .. j - 1 : t[k] = Blank) /\ (j <= Len(t) => t[j] # Blank)

BlankFrom(t, i) ==
  CHOOSE j \in i .. Len(t) + 1 :
    (\A k \in i .. j - 1 : t[k] # Blank) /\ (j <= Len(t) => t[j] = Blank)

KeyUpTo(eq) ==
  /\ unread[eq] = Equals
  /\ \A i \in 1 .. eq - 1 : unread[i] # Equals
  /\ Trim(SubSeq(unread, 1, eq - 1)) # << >>

ReadSetting ==
  /\ stage = "reading"
  /\ \E eq \in 1 .. Len(unread) :
       /\ KeyUpTo(eq)
       /\ LET from == WordFrom(unread, eq + 1)
              to == BlankFrom(unread, from)
          IN /\ settings' = Put(settings, Trim(SubSeq(unread, 1, eq - 1)),
                                SubSeq(unread, from, to - 1))
             /\ unread' = SubSeq(unread, to + 1, Len(unread))
  /\ UNCHANGED <<place, fields, stage>>

ParseFails ==
  /\ stage = "reading" /\ unread # << >>
  /\ \A eq \in 1 .. Len(unread) : ~ KeyUpTo(eq)
  /\ stage' = "failed"
  /\ UNCHANGED <<place, fields, unread, settings>>

Connect ==
  /\ stage = "reading" /\ unread = << >>
  /\ stage' = "connected"
  /\ UNCHANGED <<place, fields, unread, settings>>

StringNext == ResolveConfig \/ ResolvePreset \/ ReadSetting \/ ParseFails \/ Connect

StringSpec == StringInit /\ [][StringNext]_stringVars

-----------------------------------------------------------------------------
(* What pgx reads in a formatted string is what the fields say, wherever   *)
(* they are written, although their defaults are applied by the loader of  *)
(* the configuration there and by buildPresetDSN here; and no field runs   *)
(* over into another, whether a value has a "=" in it or not: save that an *)
(* empty password, which has no default, is taken for the setting after    *)
(* it, and then there is no dbname.                                        *)
SettingsAsConfigured ==
  LET c == Loaded(fields)
      empty == c.password = << >>
  IN fields.dsn = << >> =>
       /\ stage # "failed"
       /\ stage = "connected" =>
            /\ DOMAIN settings =
                 {<<"host">>, <<"port">>, <<"user">>, <<"password">>, <<"search_path">>}
                 \cup (IF empty THEN {} ELSE {<<"dbname">>})
            /\ settings[<<"host">>] = c.host
            /\ settings[<<"port">>] = Decimal[c.port]
            /\ settings[<<"user">>] = c.user
            /\ settings[<<"search_path">>] = c.schema
            /\ settings[<<"password">>] =
                 IF empty THEN <<"dbname", Equals>> \o c.database ELSE c.password
            /\ ~ empty => settings[<<"dbname">>] = c.database

=============================================================================
