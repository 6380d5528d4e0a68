-------------------------------- MODULE Channels --------------------------------
(***************************************************************************)
(* The delivery channels: the rows with their sealed configuration, the    *)
(* forms they are edited in and the handlers of channel_handler.go.        *)
(*                                                                         *)
(* A configuration is its credential and its other required field. The     *)
(* dashboard is only ever shown the credential masked, and a save that     *)
(* sends the mask back must stand for what is stored.                      *)
(***************************************************************************)
EXTENDS FiniteSets

CONSTANTS
  Ids,      \* what NewID may return
  Names, Secrets, Plains,  \* what may be typed
  Types,    \* the transports in use
  Editors,  \* dashboards, or callers driving the API by hand
  Keys,     \* contents of the key file
  New, Null

Transports == {"telegram", "email", "discord", "slack", "webhook"}

Blank == ""
Dots == "dots"          \* a mask: four bullets and at most four characters
UrlDots == "url/dots"   \* the mask of a URL: its scheme and host, then the bullets
Masks == {Dots, UrlDots}
Dropped == "dropped"    \* a field the request does not have

ASSUME ChannelsAssumption ==
  /\ Types \subseteq Transports
  /\ (Secrets \cup Plains \cup Names) \cap ({Blank, Dropped} \cup Masks) = {}
  /\ New \notin Ids

VARIABLES
  rows,    \* the channels table
  issued,  \* the ids ever used
  key,     \* the master key the server was started with
  form,    \* each editor's open form
  req,     \* each editor's save under way
  merged,  \* what its handler made of it and of the row it read
  overtaken  \* the editors whose row was written since

vars == <<rows, issued, key, form, req, merged, overtaken>>

Config == [secret : {Blank} \cup Secrets \cup Masks, plain : {Blank} \cup Plains]
Partial == [secret : {Blank, Dropped} \cup Secrets \cup Masks,
            plain : {Blank, Dropped} \cup Plains]
Row == [name : Names, type : Types, config : Config, sealed : Keys]
Form == [target : Ids \cup {New}, type : Types, name : Names \cup {Blank},
         config : Config, typed : BOOLEAN]
Req == [target : Ids \cup {New}, type : Types, name : Names \cup {Blank},
        config : Partial, typed : BOOLEAN]

NoConfig == [secret |-> Blank, plain |-> Blank]

ASSUME NullAssumption == Null \notin Row \cup Form \cup Req \cup Config

-------------------------------------------------------------------------------
(* What a transport's specification says of a configuration *)

\* A webhook's headers are what is secret in it. The form has no control for them and
\* they are left out.
SecretField(type) == type # "webhook"
PlainField(type) == type \notin {"discord", "slack"}

\* For Slack and Discord the credential is the URL.
Mask(type, secret) ==
  IF secret = Blank THEN Blank ELSE IF type \in {"discord", "slack"} THEN UrlDots ELSE Dots

\* Mutant: the credential is shown as it is.
RedactedNot(type, config) == config

Redacted(type, config) == [secret |-> Mask(type, config.secret), plain |-> config.plain]

\* Bullets alone are no URL; a masked URL is one.
Validate(type, config) ==
  /\ SecretField(type) => config.secret # Blank
  /\ ~PlainField(type) => config.secret # Dots
  /\ PlainField(type) => config.plain # Blank

Broken(row) == row.sealed # key

present(row) == IF Broken(row) THEN NoConfig ELSE Redacted(row.type, row.config)

NameGiven(name) == name # Blank

-------------------------------------------------------------------------------
(* The form *)

IsOpen(e) == form[e] # Null

openNew(e) ==
  /\ ~IsOpen(e)
  /\ \E t \in Types :
       form' = [form EXCEPT ![e] = [target |-> New, type |-> t, name |-> Blank,
                                    config |-> NoConfig, typed |-> FALSE]]
  /\ UNCHANGED <<rows, issued, key, req, merged, overtaken>>

\* A form opened from an old list is one that was opened earlier.
openEditor(e, id) ==
  /\ ~IsOpen(e)
  /\ rows[id] # Null
  /\ form' = [form EXCEPT ![e] = [target |-> id, type |-> rows[id].type, name |-> rows[id].name,
                                  config |-> present(rows[id]), typed |-> FALSE]]
  /\ UNCHANGED <<rows, issued, key, req, merged, overtaken>>

\* `typed` remembers that the credential in the form is one the editor entered.
setField(e, name, config, typed) ==
  /\ form' = [form EXCEPT ![e] = [target |-> @.target, type |-> @.type, name |-> name,
                                  config |-> config, typed |-> typed]]
  /\ UNCHANGED <<rows, issued, key, req, merged, overtaken>>

setSecret(e, value) ==
  /\ IsOpen(e)
  /\ SecretField(form[e].type)
  /\ setField(e, form[e].name, [secret |-> value, plain |-> form[e].config.plain],
              value # Blank)

setPlain(e, value) ==
  /\ IsOpen(e)
  /\ PlainField(form[e].type)
  /\ setField(e, form[e].name, [secret |-> form[e].config.secret, plain |-> value],
              form[e].typed)

setName(e, value) ==
  /\ IsOpen(e)
  /\ setField(e, value, form[e].config, form[e].typed)

closeEditor(e) ==
  /\ IsOpen(e)
  /\ req[e] = Null
  /\ form' = [form EXCEPT ![e] = Null]
  /\ UNCHANGED <<rows, issued, key, req, merged, overtaken>>

\* A masked or blank credential is left out; any other blank is sent.
toConfig(type, config) ==
  [secret |-> IF ~SecretField(type) \/ config.secret \in {Blank, Dots}
              THEN Dropped ELSE config.secret,
   plain |-> IF PlainField(type) THEN config.plain ELSE Dropped]

\* A caller of the API may also send back every field as it was shown.
asShown(type, config) ==
  [secret |-> IF SecretField(type) THEN config.secret ELSE Dropped,
   plain |-> IF PlainField(type) THEN config.plain ELSE Dropped]

handleSubmit(e) ==
  /\ IsOpen(e)
  /\ req[e] = Null
  /\ \E config \in {toConfig(form[e].type, form[e].config), asShown(form[e].type, form[e].config)} :
       req' = [req EXCEPT ![e] =
                 [target |-> form[e].target, type |-> form[e].type, name |-> form[e].name,
                  config |-> config, typed |-> form[e].typed]]
  /\ UNCHANGED <<rows, issued, key, form, merged, overtaken>>

-------------------------------------------------------------------------------
(* The handlers *)

Answered(e) ==
  /\ req' = [req EXCEPT ![e] = Null]
  /\ merged' = [merged EXCEPT ![e] = Null]

\* A refusal leaves the form open with the message in it.
Refuse(e) ==
  /\ Answered(e)
  /\ overtaken' = overtaken \ {e}
  /\ UNCHANGED <<rows, issued, key, form>>

Saved(e) == form' = [form EXCEPT ![e] = Null]

NameTaken(name, id) == \E other \in Ids \ {id} : rows[other] # Null /\ rows[other].name = name

Filled(config) ==
  [secret |-> IF config.secret = Dropped THEN Blank ELSE config.secret,
   plain |-> IF config.plain = Dropped THEN Blank ELSE config.plain]

\* Validated before anything is written; the UNIQUE name is the insert's to refuse.
HandleCreateChannel(e) ==
  /\ req[e] # Null
  /\ req[e].target = New
  /\ LET config == Filled(req[e].config)
     IN \/ /\ \/ ~NameGiven(req[e].name)
              \/ ~Validate(req[e].type, config)
              \/ NameTaken(req[e].name, New)
           /\ Refuse(e)
        \/ /\ NameGiven(req[e].name)
           /\ Validate(req[e].type, config)
           /\ ~NameTaken(req[e].name, New)
           /\ \E id \in Ids \ issued :
                /\ rows' = [rows EXCEPT ![id] = [name |-> req[e].name, type |-> req[e].type,
                                                 config |-> config, sealed |-> key]]
                /\ issued' = issued \cup {id}
           /\ Answered(e)
           /\ Saved(e)
           /\ UNCHANGED <<key, overtaken>>

\* Mutant: the bullets are taken for a credential.
MergedLiteral(base, config) ==
  [secret |-> IF config.secret \in {Dropped, Blank} THEN base.secret ELSE config.secret,
   plain |-> IF config.plain \in {Dropped, Blank} THEN base.plain ELSE config.plain]

\* Only a blank and what begins with bullets fall back to what is stored.
Merged(base, config) ==
  [secret |-> IF config.secret \in {Dropped, Blank, Dots} THEN base.secret ELSE config.secret,
   plain |-> IF config.plain \in {Dropped, Blank} THEN base.plain ELSE config.plain]

\* Mutant: a configuration that cannot be read is merged into all the same.
ReadableAlways(row) == row.config

\* Nothing is kept of a configuration that cannot be read.
Readable(row) == IF Broken(row) THEN NoConfig ELSE row.config

\* Mutant: the merged configuration is not checked again.
MergeUnchecked(row, config) == [ok |-> TRUE, config |-> Merged(Readable(row), config)]

mergeConfig(row, config) ==
  LET whole == Merged(Readable(row), config)
  IN [ok |-> Validate(row.type, whole), config |-> whole]

\* The first statement of an update, and all that is decided from it.
ReadForUpdate(e) ==
  /\ req[e] # Null
  /\ req[e].target # New
  /\ merged[e] = Null
  /\ LET row == rows[req[e].target]
     IN \/ /\ \/ row = Null
              \/ ~NameGiven(req[e].name)
              \/ row # Null /\ ~mergeConfig(row, req[e].config).ok
           /\ Refuse(e)
        \/ /\ row # Null
           /\ NameGiven(req[e].name)
           /\ mergeConfig(row, req[e].config).ok
           /\ merged' = [merged EXCEPT ![e] = mergeConfig(row, req[e].config).config]
           /\ UNCHANGED <<rows, issued, key, form, req, overtaken>>

\* The second one. A row deleted in between is not found again and has no presentation:
\* the handler panics and the connection is cut, which the form takes for a failure.
WriteUpdate(e) ==
  /\ merged[e] # Null
  /\ LET id == req[e].target
     IN \/ /\ rows[id] = Null \/ NameTaken(req[e].name, id)
           /\ Refuse(e)
        \/ /\ rows[id] # Null
           /\ ~NameTaken(req[e].name, id)
           /\ rows' = [rows EXCEPT ![id] = [name |-> req[e].name, type |-> @.type,
                                            config |-> merged[e], sealed |-> key]]
           /\ overtaken' = {f \in Editors \ {e} :
                              f \in overtaken \/ (merged[f] # Null /\ req[f].target = id)}
           /\ Answered(e)
           /\ Saved(e)
           /\ UNCHANGED <<issued, key>>

HandleDeleteChannel(id) ==
  /\ rows[id] # Null
  /\ rows' = [rows EXCEPT ![id] = Null]
  /\ UNCHANGED <<issued, key, form, req, merged, overtaken>>

\* Requests die with the server; the key file may be lost, replaced or restored.
Restart ==
  /\ key' \in Keys
  /\ req' = [e \in Editors |-> Null]
  /\ merged' = [e \in Editors |-> Null]
  /\ overtaken' = {}
  /\ UNCHANGED <<rows, issued, form>>

-------------------------------------------------------------------------------
Init ==
  /\ rows = [id \in Ids |-> Null]
  /\ issued = {}
  /\ key \in Keys
  /\ form = [e \in Editors |-> Null]
  /\ req = [e \in Editors |-> Null]
  /\ merged = [e \in Editors |-> Null]
  /\ overtaken = {}

Edit(e) ==
  \/ openNew(e)
  \/ \E id \in Ids : openEditor(e, id)
  \/ \E value \in Secrets \cup {Blank} : setSecret(e, value)
  \/ \E value \in Plains \cup {Blank} : setPlain(e, value)
  \/ \E value \in Names : setName(e, value)
  \/ closeEditor(e)
  \/ handleSubmit(e)

Handle(e) ==
  \/ HandleCreateChannel(e)
  \/ ReadForUpdate(e)
  \/ WriteUpdate(e)

Next ==
  \/ \E e \in Editors : Edit(e) \/ Handle(e)
  \/ \E id \in Ids : HandleDeleteChannel(id)
  \/ Restart

Spec == Init /\ [][Next]_vars

-------------------------------------------------------------------------------
(* Properties *)

\* Every row, form and request is well formed, and a row has an id that was issued.
TypeOK ==
  /\ rows \in [Ids -> Row \cup {Null}]
  /\ issued \in SUBSET Ids
  /\ key \in Keys
  /\ form \in [Editors -> Form \cup {Null}]
  /\ req \in [Editors -> Req \cup {Null}]
  /\ merged \in [Editors -> Config \cup {Null}]
  /\ overtaken \in SUBSET Editors
  /\ \A id \in Ids : rows[id] # Null => id \in issued

\* Every stored configuration is one that passes its transport's validation, whatever
\* was left out of the saves it comes from and however they overlapped.
StoredValidates ==
  \A id \in Ids : rows[id] # Null => Validate(rows[id].type, rows[id].config)

\* A form holds a credential only if its editor entered it there: what the API hands
\* out is masked, so nobody is shown what somebody else stored.
SecretsWriteOnly ==
  \A e \in Editors : IsOpen(e) /\ form[e].config.secret \in Secrets => form[e].typed

\* A save from a form whose credential was not entered anew leaves the credential that
\* is stored, unless another save of that channel came between its read and its write.
KeepsUntouched ==
  [][\A e \in Editors :
       /\ WriteUpdate(e)
       /\ rows' # rows
       /\ ~req[e].typed
       /\ e \notin overtaken
       => rows'[req[e].target].config.secret = rows[req[e].target].config.secret]_vars

\* A row that cannot be read is only ever replaced whole: both fields are then the
\* request's own, never what was stored under the lost key.
RepairedWhole ==
  [][\A e \in Editors :
       /\ WriteUpdate(e)
       /\ rows' # rows
       /\ Broken(rows[req[e].target])
       => /\ rows'[req[e].target].config = Filled(req[e].config)
          /\ SecretField(rows[req[e].target].type) => req[e].typed]_vars
================================================================================
