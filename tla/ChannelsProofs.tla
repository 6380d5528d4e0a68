----------------------------- MODULE ChannelsProofs -----------------------------
(***************************************************************************)
(* What TLAPS proves of Channels: for any number of editors, channels and  *)
(* keys and every transport, the rows are well formed, each stored         *)
(* configuration passes its transport's validation and no form holds a     *)
(* credential its editor did not enter; and, where the mask is bullets,    *)
(* an untouched credential is kept and an unreadable row replaced whole.   *)
(***************************************************************************)
EXTENDS Channels, TLAPS

USE ChannelsAssumption, NullAssumption

\* What a handler carries from its read to its write must still validate then: the row
\* it was read from is gone for good or has kept its transport.
CarriedValidates ==
  \A e \in Editors :
    merged[e] # Null =>
      /\ req[e] # Null
      /\ req[e].target \in issued
      /\ req[e].name \in Names
      /\ rows[req[e].target] # Null =>
           Validate(rows[req[e].target].type, merged[e])

IInv == TypeOK /\ StoredValidates /\ SecretsWriteOnly /\ CarriedValidates

-------------------------------------------------------------------------------
(* The operators *)

LEMMA RedactedConfig ==
  ASSUME NEW type \in Types, NEW config \in Config
  PROVE  /\ Redacted(type, config) \in Config
         /\ Redacted(type, config).secret \in {Blank} \cup Masks
<1>1. Mask(type, config.secret) \in {Blank} \cup Masks
  BY DEF Mask, Masks
<1>2. Redacted(type, config).secret = Mask(type, config.secret)
  BY DEF Redacted, Config
<1>3. Redacted(type, config) \in Config
  BY <1>1 DEF Redacted, Config
<1> QED
  BY <1>1, <1>2, <1>3

LEMMA PresentConfig ==
  ASSUME NEW row \in Row
  PROVE  /\ present(row) \in Config
         /\ present(row).secret \notin Secrets
<1>1. row.type \in Types /\ row.config \in Config
  BY DEF Row
<1>2. NoConfig \in Config /\ NoConfig.secret = Blank
  BY DEF NoConfig, Config
<1>3. Redacted(row.type, row.config) \in Config
      /\ Redacted(row.type, row.config).secret \in {Blank} \cup Masks
  BY <1>1, RedactedConfig
<1> QED
  BY <1>2, <1>3 DEF present

LEMMA MergedConfig ==
  ASSUME NEW row \in Row, NEW config \in Partial
  PROVE  mergeConfig(row, config).config \in Config
<1>1. Readable(row) \in Config
  BY DEF Readable, NoConfig, Config, Row
<1>2. Merged(Readable(row), config) \in Config
  BY <1>1 DEF Merged, Config, Partial
<1> QED
  BY <1>2 DEF mergeConfig

LEMMA FilledConfig ==
  ASSUME NEW config \in Partial
  PROVE  Filled(config) \in Config
BY DEF Filled, Config, Partial

LEMMA SubmittedConfig ==
  ASSUME NEW type \in Types, NEW config \in Config
  PROVE  toConfig(type, config) \in Partial /\ asShown(type, config) \in Partial
BY DEF toConfig, asShown, Config, Partial

-------------------------------------------------------------------------------
(* The steps *)

LEMMA InitIInv == Init => IInv
BY DEF Init, IInv, TypeOK, StoredValidates, SecretsWriteOnly, CarriedValidates, IsOpen

\* An edit disturbs one form and nothing else.
LEMMA FormStep ==
  ASSUME IInv, NEW e \in Editors, NEW f \in Form \cup {Null},
         f # Null /\ f.config.secret \in Secrets => f.typed,
         form' = [form EXCEPT ![e] = f],
         UNCHANGED <<rows, issued, key, req, merged, overtaken>>
  PROVE  IInv'
<1>1. TypeOK'
  BY DEF IInv, TypeOK
<1>2. SecretsWriteOnly'
  BY DEF IInv, TypeOK, SecretsWriteOnly, IsOpen
<1>3. StoredValidates' /\ CarriedValidates'
  BY DEF IInv, StoredValidates, CarriedValidates
<1> QED
  BY <1>1, <1>2, <1>3 DEF IInv

LEMMA OpenNewStep ==
  ASSUME IInv, NEW e \in Editors, openNew(e)
  PROVE  IInv'
<1>1. PICK t \in Types :
        form' = [form EXCEPT ![e] = [target |-> New, type |-> t, name |-> Blank,
                                    config |-> NoConfig, typed |-> FALSE]]
  BY DEF openNew
<1> DEFINE f == [target |-> New, type |-> t, name |-> Blank, config |-> NoConfig, typed |-> FALSE]
<1>2. f \in Form
  BY DEF Form, NoConfig, Config
<1>3. f.config.secret \notin Secrets
  BY DEF NoConfig
<1> QED
  BY <1>1, <1>2, <1>3, FormStep DEF openNew

LEMMA OpenEditorStep ==
  ASSUME IInv, NEW e \in Editors, NEW id \in Ids, openEditor(e, id)
  PROVE  IInv'
<1> DEFINE f == [target |-> id, type |-> rows[id].type, name |-> rows[id].name,
                 config |-> present(rows[id]), typed |-> FALSE]
<1>1. rows[id] \in Row
  BY DEF openEditor, IInv, TypeOK
<1>2. present(rows[id]) \in Config /\ present(rows[id]).secret \notin Secrets
  BY <1>1, PresentConfig
<1>3. f \in Form
  BY <1>1, <1>2 DEF Form, Row
<1>4. f.config.secret \notin Secrets
  BY <1>2
<1> QED
  BY <1>3, <1>4, FormStep DEF openEditor

LEMMA SetFieldStep ==
  ASSUME IInv, NEW e \in Editors, IsOpen(e), NEW name \in Names \cup {Blank},
         NEW config \in Config, NEW typed \in BOOLEAN,
         config.secret \in Secrets => typed,
         setField(e, name, config, typed)
  PROVE  IInv'
<1> DEFINE f == [target |-> form[e].target, type |-> form[e].type, name |-> name,
                 config |-> config, typed |-> typed]
<1>1. form[e] \in Form
  BY DEF IInv, TypeOK, IsOpen
<1>2. f \in Form
  BY <1>1 DEF Form
<1>3. form' = [form EXCEPT ![e] = f]
  BY DEF setField
<1> QED
  BY <1>2, <1>3, FormStep DEF setField

LEMMA SetSecretStep ==
  ASSUME IInv, NEW e \in Editors, NEW value \in Secrets \cup {Blank}, setSecret(e, value)
  PROVE  IInv'
<1> DEFINE c == [secret |-> value, plain |-> form[e].config.plain]
<1>1. form[e].config \in Config /\ form[e].name \in Names \cup {Blank}
  BY DEF setSecret, IsOpen, IInv, TypeOK, Form
<1>2. c \in Config /\ c.secret = value
  BY <1>1 DEF Config
<1>3. (value # Blank) \in BOOLEAN
  OBVIOUS
<1>4. c.secret \in Secrets => value # Blank
  BY <1>2
<1>5. IsOpen(e) /\ setField(e, form[e].name, c, value # Blank)
  BY DEF setSecret
<1> HIDE DEF c
<1> QED
  BY <1>1, <1>2, <1>3, <1>4, <1>5, SetFieldStep

LEMMA SetPlainStep ==
  ASSUME IInv, NEW e \in Editors, NEW value \in Plains \cup {Blank}, setPlain(e, value)
  PROVE  IInv'
<1> DEFINE c == [secret |-> form[e].config.secret, plain |-> value]
<1>1. /\ form[e].config \in Config
      /\ form[e].typed \in BOOLEAN
      /\ form[e].name \in Names \cup {Blank}
  BY DEF setPlain, IsOpen, IInv, TypeOK, Form
<1>2. c \in Config /\ c.secret = form[e].config.secret
  BY <1>1 DEF Config
<1>3. c.secret \in Secrets => form[e].typed
  BY <1>2 DEF IInv, SecretsWriteOnly, setPlain
<1>4. IsOpen(e) /\ setField(e, form[e].name, c, form[e].typed)
  BY DEF setPlain
<1> HIDE DEF c
<1> QED
  BY <1>1, <1>2, <1>3, <1>4, SetFieldStep

LEMMA SetNameStep ==
  ASSUME IInv, NEW e \in Editors, NEW value \in Names, setName(e, value)
  PROVE  IInv'
<1>1. form[e].config \in Config /\ form[e].typed \in BOOLEAN
  BY DEF setName, IsOpen, IInv, TypeOK, Form
<1>2. form[e].config.secret \in Secrets => form[e].typed
  BY DEF IInv, SecretsWriteOnly, setName
<1>3. IsOpen(e) /\ setField(e, value, form[e].config, form[e].typed)
  BY DEF setName
<1> QED
  BY <1>1, <1>2, <1>3, SetFieldStep

LEMMA CloseStep ==
  ASSUME IInv, NEW e \in Editors, closeEditor(e)
  PROVE  IInv'
BY FormStep DEF closeEditor

LEMMA SubmitStep ==
  ASSUME IInv, NEW e \in Editors, handleSubmit(e)
  PROVE  IInv'
<1>1. form[e] \in Form /\ req[e] = Null /\ merged[e] = Null
  BY DEF handleSubmit, IsOpen, IInv, TypeOK, CarriedValidates
<1>2. form[e].type \in Types /\ form[e].config \in Config
  BY <1>1 DEF Form
<1>3. PICK config \in Partial :
        req' = [req EXCEPT ![e] =
                  [target |-> form[e].target, type |-> form[e].type, name |-> form[e].name,
                   config |-> config, typed |-> form[e].typed]]
  BY <1>2, SubmittedConfig DEF handleSubmit
<1> DEFINE r == [target |-> form[e].target, type |-> form[e].type, name |-> form[e].name,
                 config |-> config, typed |-> form[e].typed]
<1>4. r \in Req
  BY <1>1 DEF Form, Req
<1> HIDE DEF r
<1>5. req' = [req EXCEPT ![e] = r]
  BY <1>3 DEF r
<1>6. TypeOK'
  BY <1>4, <1>5 DEF handleSubmit, IInv, TypeOK
<1>7. CarriedValidates'
  BY <1>1, <1>5 DEF handleSubmit, IInv, TypeOK, CarriedValidates
<1>8. StoredValidates' /\ SecretsWriteOnly'
  BY DEF handleSubmit, IInv, StoredValidates, SecretsWriteOnly, IsOpen
<1> QED
  BY <1>6, <1>7, <1>8 DEF IInv

LEMMA RefuseStep ==
  ASSUME IInv, NEW e \in Editors, Refuse(e)
  PROVE  IInv'
<1>1. TypeOK'
  BY DEF Refuse, Answered, IInv, TypeOK
<1>2. CarriedValidates'
  BY DEF Refuse, Answered, IInv, TypeOK, CarriedValidates
<1>3. StoredValidates' /\ SecretsWriteOnly'
  BY DEF Refuse, IInv, StoredValidates, SecretsWriteOnly, IsOpen
<1> QED
  BY <1>1, <1>2, <1>3 DEF IInv

\* A row written under an id leaves every other row and what the others carry alone.
LEMMA CreateStep ==
  ASSUME IInv, NEW e \in Editors, HandleCreateChannel(e)
  PROVE  IInv'
<1> DEFINE config == Filled(req[e].config)
<1>1. CASE Refuse(e)
  BY <1>1, RefuseStep
<1>2. CASE ~Refuse(e)
  <2> DEFINE row == [name |-> req[e].name, type |-> req[e].type, config |-> config, sealed |-> key]
  <2>1. PICK id \in Ids \ issued : rows' = [rows EXCEPT ![id] = row] /\ issued' = issued \cup {id}
    BY <1>2 DEF HandleCreateChannel
  <2>2. /\ NameGiven(req[e].name)
        /\ Validate(req[e].type, config)
        /\ req' = [req EXCEPT ![e] = Null]
        /\ merged' = [merged EXCEPT ![e] = Null]
        /\ form' = [form EXCEPT ![e] = Null]
        /\ key' = key /\ overtaken' = overtaken
    BY <1>2 DEF HandleCreateChannel, Saved, Answered
  <2>3. req[e] \in Req
    BY DEF HandleCreateChannel, IInv, TypeOK
  <2>4. config \in Config
    BY <2>3, FilledConfig DEF Req
  <2>5. row \in Row /\ row.type = req[e].type /\ row.config = config
    BY <2>2, <2>3, <2>4 DEF Row, Req, NameGiven, IInv, TypeOK
  <2> HIDE DEF row, config
  <2>6. TypeOK'
    BY <2>1, <2>2, <2>5 DEF IInv, TypeOK
  <2>7. StoredValidates'
    BY <2>1, <2>2, <2>5 DEF IInv, TypeOK, StoredValidates
  <2>8. SecretsWriteOnly'
    BY <2>2 DEF IInv, TypeOK, SecretsWriteOnly, IsOpen
  <2>9. CarriedValidates'
    BY <2>1, <2>2 DEF IInv, TypeOK, CarriedValidates
  <2> QED
    BY <2>6, <2>7, <2>8, <2>9 DEF IInv
<1> QED
  BY <1>1, <1>2

LEMMA ReadStep ==
  ASSUME IInv, NEW e \in Editors, ReadForUpdate(e)
  PROVE  IInv'
<1>1. CASE Refuse(e)
  BY <1>1, RefuseStep
<1>2. CASE ~Refuse(e)
  <2> DEFINE row == rows[req[e].target]
             whole == mergeConfig(row, req[e].config).config
  <2>1. /\ req[e] # Null
        /\ row # Null
        /\ NameGiven(req[e].name)
        /\ mergeConfig(row, req[e].config).ok
        /\ merged' = [merged EXCEPT ![e] = whole]
        /\ UNCHANGED <<rows, issued, key, form, req, overtaken>>
    BY <1>2 DEF ReadForUpdate
  <2>2. req[e] \in Req /\ req[e].target \in Ids
    BY DEF ReadForUpdate, IInv, TypeOK, Req
  <2>3. row \in Row
    BY <2>1, <2>2 DEF IInv, TypeOK
  <2>4. whole \in Config
    BY <2>2, <2>3, MergedConfig DEF Req
  <2>5. Validate(row.type, whole)
    BY <2>1 DEF mergeConfig
  <2>6. req[e].target \in issued /\ req[e].name \in Names
    BY <2>1, <2>2 DEF IInv, TypeOK, Req, NameGiven
  <2> HIDE DEF whole
  <2>7. TypeOK'
    BY <2>1, <2>4 DEF IInv, TypeOK
  <2>8. CarriedValidates'
    BY <2>1, <2>5, <2>6 DEF IInv, TypeOK, CarriedValidates
  <2>9. StoredValidates' /\ SecretsWriteOnly'
    BY <2>1 DEF IInv, StoredValidates, SecretsWriteOnly, IsOpen
  <2> QED
    BY <2>7, <2>8, <2>9 DEF IInv
<1> QED
  BY <1>1, <1>2

LEMMA WriteStep ==
  ASSUME IInv, NEW e \in Editors, WriteUpdate(e)
  PROVE  IInv'
<1>1. CASE Refuse(e)
  BY <1>1, RefuseStep
<1>2. CASE ~Refuse(e)
  <2> DEFINE id == req[e].target
             row == [name |-> req[e].name, type |-> rows[id].type,
                     config |-> merged[e], sealed |-> key]
  <2>1. /\ merged[e] # Null
        /\ rows[id] # Null
        /\ rows' = [rows EXCEPT ![id] = row]
        /\ overtaken' \in SUBSET Editors
        /\ req' = [req EXCEPT ![e] = Null]
        /\ merged' = [merged EXCEPT ![e] = Null]
        /\ form' = [form EXCEPT ![e] = Null]
        /\ issued' = issued /\ key' = key
    BY <1>2 DEF WriteUpdate, Saved, Answered
  <2>2. req[e] \in Req /\ id \in Ids /\ req[e].name \in Names
    BY <2>1 DEF IInv, TypeOK, CarriedValidates
  <2>3. rows[id] \in Row /\ merged[e] \in Config
    BY <2>1, <2>2 DEF IInv, TypeOK
  <2>4. row \in Row /\ row.type = rows[id].type /\ row.config = merged[e]
    BY <2>2, <2>3 DEF Row, IInv, TypeOK
  <2>5. Validate(row.type, row.config)
    BY <2>1, <2>4 DEF IInv, CarriedValidates
  <2> HIDE DEF row
  <2>6. TypeOK'
    BY <2>1, <2>2, <2>4 DEF IInv, TypeOK
  <2>7. StoredValidates'
    BY <2>1, <2>2, <2>5 DEF IInv, TypeOK, StoredValidates
  <2>8. SecretsWriteOnly'
    BY <2>1 DEF IInv, TypeOK, SecretsWriteOnly, IsOpen
  <2>9. CarriedValidates'
    BY <2>1, <2>2, <2>4 DEF IInv, TypeOK, CarriedValidates
  <2> QED
    BY <2>6, <2>7, <2>8, <2>9 DEF IInv
<1> QED
  BY <1>1, <1>2

LEMMA DeleteStep ==
  ASSUME IInv, NEW id \in Ids, HandleDeleteChannel(id)
  PROVE  IInv'
<1>1. TypeOK'
  BY DEF HandleDeleteChannel, IInv, TypeOK
<1>2. StoredValidates' /\ SecretsWriteOnly'
  BY DEF HandleDeleteChannel, IInv, TypeOK, StoredValidates, SecretsWriteOnly, IsOpen
<1>3. CarriedValidates'
  BY DEF HandleDeleteChannel, IInv, TypeOK, CarriedValidates
<1> QED
  BY <1>1, <1>2, <1>3 DEF IInv

LEMMA RestartStep ==
  ASSUME IInv, Restart
  PROVE  IInv'
BY DEF Restart, IInv, TypeOK, StoredValidates, SecretsWriteOnly, CarriedValidates, IsOpen

LEMMA NextIInv == IInv /\ [Next]_vars => IInv'
<1> SUFFICES ASSUME IInv, [Next]_vars
             PROVE  IInv'
  OBVIOUS
<1>1. ASSUME NEW e \in Editors, Edit(e) PROVE IInv'
  BY <1>1, OpenNewStep, OpenEditorStep, SetSecretStep, SetPlainStep, SetNameStep, CloseStep,
     SubmitStep DEF Edit
<1>2. ASSUME NEW e \in Editors, Handle(e) PROVE IInv'
  BY <1>2, CreateStep, ReadStep, WriteStep DEF Handle
<1>3. CASE UNCHANGED vars
  BY <1>3 DEF vars, IInv, TypeOK, StoredValidates, SecretsWriteOnly, CarriedValidates, IsOpen
<1> QED
  BY <1>1, <1>2, <1>3, DeleteStep, RestartStep DEF Next

-------------------------------------------------------------------------------
(* The theorems *)

LEMMA Inductive == Spec => []IInv
BY InitIInv, NextIInv, PTL DEF Spec

\* The rows, forms and requests are well formed (the channels table and the handlers
\* of channel_handler.go).
THEOREM ChannelsTypeOK == Spec => []TypeOK
<1>1. IInv => TypeOK
  BY DEF IInv
<1> QED
  BY <1>1, Inductive, PTL

\* Every stored configuration passes ParseAndValidate, however the saves it comes from
\* were merged and overlapped.
THEOREM ChannelsStoredValidates == Spec => []StoredValidates
<1>1. IInv => StoredValidates
  BY DEF IInv
<1> QED
  BY <1>1, Inductive, PTL

\* What present hands out never carries a credential into a form.
THEOREM ChannelsSecretsWriteOnly == Spec => []SecretsWriteOnly
<1>1. IInv => SecretsWriteOnly
  BY DEF IInv
<1> QED
  BY <1>1, Inductive, PTL

-------------------------------------------------------------------------------
(* What a save keeps and what it replaces *)

\* The mask of every transport in use begins with its bullets. (That of Slack and
\* Discord is a URL, and the mask sent back is stored in place of the credential.)
Bulleted == Types \cap {"discord", "slack"} = {}

\* A form or a request of this type is about no channel yet, or about one that has had
\* this type for as long as it exists.
Concerns(target, type) ==
  target # New => /\ target \in issued
                  /\ rows[target] # Null => rows[target].type = type

\* A form whose credential was not entered shows bullets at most.
FormKnows(f) ==
  /\ Concerns(f.target, f.type)
  /\ ~f.typed => f.config.secret \in {Blank, Dots}

FormsKnow == \A e \in Editors : form[e] # Null => FormKnows(form[e])

\* A request from such a form carries no credential.
ReqKnows(r) ==
  /\ Concerns(r.target, r.type)
  /\ ~r.typed => r.config.secret \in {Dropped, Blank, Dots}
  /\ ~SecretField(r.type) => r.config.secret = Dropped

RequestsKnow == \A e \in Editors : req[e] # Null => ReqKnows(req[e])

WebhooksBlank ==
  \A id \in Ids : rows[id] # Null /\ ~SecretField(rows[id].type) => rows[id].config.secret = Blank

\* What a handler carries is what it would make of the row as it is now, unless the
\* row was written meanwhile, and then it was sealed with the key of this process.
CarriedFresh ==
  \A e \in Editors : merged[e] # Null =>
    /\ ~SecretField(req[e].type) => merged[e].secret = Blank
    /\ LET row == rows[req[e].target]
       IN row # Null => IF e \in overtaken THEN ~Broken(row)
                        ELSE merged[e] = Merged(Readable(row), req[e].config)

OvertakenCarry == \A e \in overtaken : merged[e] # Null

KInv == FormsKnow /\ RequestsKnow /\ WebhooksBlank /\ CarriedFresh /\ OvertakenCarry

\* No step gives a channel another type, or an id that was used to another channel.
Onward ==
  /\ issued \subseteq issued'
  /\ \A id \in Ids : rows'[id] # Null =>
       id \notin issued \/ (rows[id] # Null /\ rows'[id].type = rows[id].type)

\* What is known of forms and requests outlives such a step.
LEMMA StillKnown ==
  ASSUME TypeOK, FormsKnow, RequestsKnow, Onward
  PROVE  /\ \A e \in Editors : form[e] # Null /\ form'[e] = form[e] => FormKnows(form[e])'
         /\ \A e \in Editors : req[e] # Null /\ req'[e] = req[e] => ReqKnows(req[e])'
<1>1. ASSUME NEW e \in Editors, form[e] # Null, form'[e] = form[e] PROVE FormKnows(form[e])'
  <2>1. form[e].target \in Ids \cup {New}
    BY <1>1 DEF TypeOK, Form
  <2>2. FormKnows(form[e])
    BY <1>1 DEF FormsKnow
  <2> QED BY <1>1, <2>1, <2>2 DEF FormKnows, Onward, Concerns
<1>2. ASSUME NEW e \in Editors, req[e] # Null, req'[e] = req[e] PROVE ReqKnows(req[e])'
  <2>1. req[e].target \in Ids \cup {New}
    BY <1>2 DEF TypeOK, Req
  <2>2. ReqKnows(req[e])
    BY <1>2 DEF RequestsKnow
  <2> QED BY <1>2, <2>1, <2>2 DEF ReqKnows, Onward, Concerns
<1> QED BY <1>1, <1>2

\* Nothing is open, under way or stored at first.
LEMMA InitKInv == Init => KInv
BY DEF Init, KInv, FormsKnow, RequestsKnow, WebhooksBlank, CarriedFresh, OvertakenCarry

\* A form that knows no more than it should keeps the invariant.
LEMMA FormKeeps ==
  ASSUME TypeOK, KInv, NEW e \in Editors, NEW f, f # Null => FormKnows(f),
         form' = [form EXCEPT ![e] = f],
         UNCHANGED <<rows, issued, key, req, merged, overtaken>>
  PROVE  KInv'
<1>1. FormsKnow'
  BY DEF TypeOK, KInv, FormsKnow, FormKnows, Concerns
<1>2. RequestsKnow'
  BY DEF KInv, RequestsKnow, ReqKnows, Concerns
<1>3. WebhooksBlank' /\ CarriedFresh' /\ OvertakenCarry'
  BY DEF KInv, WebhooksBlank, CarriedFresh, OvertakenCarry, Broken, Readable
<1> QED BY <1>1, <1>2, <1>3 DEF KInv

\* What an editor does to its form.
LEMMA EditKeeps ==
  ASSUME Bulleted, TypeOK, KInv, NEW e \in Editors, Edit(e), ~handleSubmit(e)
  PROVE  KInv'
<1>1. CASE openNew(e)
  <2>1. PICK t \in Types :
          form' = [form EXCEPT ![e] = [target |-> New, type |-> t, name |-> Blank,
                                       config |-> NoConfig, typed |-> FALSE]]
    BY <1>1 DEF openNew
  <2> DEFINE f == [target |-> New, type |-> t, name |-> Blank, config |-> NoConfig, typed |-> FALSE]
  <2>2. FormKnows(f)
    BY DEF FormKnows, Concerns, NoConfig
  <2> HIDE DEF f
  <2>3. form' = [form EXCEPT ![e] = f]
    BY <2>1 DEF f
  <2> QED BY <1>1, <2>2, <2>3, FormKeeps DEF openNew
<1>2. ASSUME NEW id \in Ids, openEditor(e, id) PROVE KInv'
  <2> DEFINE f == [target |-> id, type |-> rows[id].type, name |-> rows[id].name,
                   config |-> present(rows[id]), typed |-> FALSE]
  <2>1. rows[id] \in Row /\ rows[id] # Null /\ id \in issued
    BY <1>2 DEF openEditor, TypeOK
  <2>2. present(rows[id]).secret \in {Blank, Dots}
    <3>1. rows[id].type \notin {"discord", "slack"} /\ rows[id].config \in Config
      BY <2>1 DEF Bulleted, Row
    <3> QED BY <3>1 DEF present, Redacted, Mask, NoConfig
  <2>3. FormKnows(f)
    BY <2>1, <2>2 DEF FormKnows, Concerns
  <2>4. form' = [form EXCEPT ![e] = f]
    BY <1>2 DEF openEditor
  <2> HIDE DEF f
  <2> QED BY <1>2, <2>3, <2>4, FormKeeps DEF openEditor
<1>3. ASSUME NEW name, NEW config, NEW typed, setField(e, name, config, typed), IsOpen(e),
             ~typed => config.secret \in {Blank, Dots}
      PROVE  KInv'
  <2> DEFINE f == [target |-> form[e].target, type |-> form[e].type, name |-> name,
                   config |-> config, typed |-> typed]
  <2>1. FormKnows(form[e])
    BY <1>3 DEF KInv, FormsKnow, IsOpen
  <2>2. FormKnows(f)
    BY <1>3, <2>1 DEF FormKnows, Concerns
  <2>3. form' = [form EXCEPT ![e] = f]
    BY <1>3 DEF setField
  <2> HIDE DEF f
  <2> QED BY <1>3, <2>2, <2>3, FormKeeps DEF setField
<1>4. ASSUME NEW value \in Secrets \cup {Blank}, setSecret(e, value) PROVE KInv'
  <2> DEFINE c == [secret |-> value, plain |-> form[e].config.plain]
  <2>1. setField(e, form[e].name, c, value # Blank) /\ IsOpen(e)
    BY <1>4 DEF setSecret
  <2>2. ~(value # Blank) => c.secret \in {Blank, Dots}
    OBVIOUS
  <2> HIDE DEF c
  <2> QED BY <1>3, <2>1, <2>2
<1>5. ASSUME IsOpen(e) PROVE ~form[e].typed => form[e].config.secret \in {Blank, Dots}
  BY <1>5 DEF KInv, FormsKnow, FormKnows, IsOpen
<1>6. ASSUME NEW value \in Plains \cup {Blank}, setPlain(e, value) PROVE KInv'
  <2> DEFINE c == [secret |-> form[e].config.secret, plain |-> value]
  <2>1. setField(e, form[e].name, c, form[e].typed) /\ IsOpen(e)
    BY <1>6 DEF setPlain
  <2>2. ~form[e].typed => c.secret \in {Blank, Dots}
    BY <1>5, <2>1
  <2> HIDE DEF c
  <2> QED BY <1>3, <2>1, <2>2
<1>7. ASSUME NEW value \in Names, setName(e, value) PROVE KInv'
  BY <1>3, <1>5, <1>7 DEF setName
<1>8. CASE closeEditor(e)
  BY <1>8, FormKeeps DEF closeEditor
<1> QED BY <1>1, <1>2, <1>4, <1>6, <1>7, <1>8 DEF Edit

\* What a form sends, by itself or by hand, it does not make up.
LEMMA SubmitKeeps ==
  ASSUME Bulleted, IInv, KInv, NEW e \in Editors, handleSubmit(e)
  PROVE  KInv'
<1>1. form[e] \in Form /\ FormKnows(form[e]) /\ merged[e] = Null
  BY DEF handleSubmit, IsOpen, IInv, TypeOK, CarriedValidates, KInv, FormsKnow
<1>2. PICK config \in {toConfig(form[e].type, form[e].config), asShown(form[e].type, form[e].config)} :
        req' = [req EXCEPT ![e] =
                  [target |-> form[e].target, type |-> form[e].type, name |-> form[e].name,
                   config |-> config, typed |-> form[e].typed]]
  BY DEF handleSubmit
<1> DEFINE r == [target |-> form[e].target, type |-> form[e].type, name |-> form[e].name,
                 config |-> config, typed |-> form[e].typed]
<1>3. /\ config.secret \in {Dropped, form[e].config.secret}
      /\ ~SecretField(form[e].type) => config.secret = Dropped
  BY <1>2 DEF toConfig, asShown
<1>4. ReqKnows(r)
  BY <1>1, <1>3 DEF ReqKnows, FormKnows, Concerns
<1>5. req' = [req EXCEPT ![e] = r]
  BY <1>2
<1> HIDE DEF r
<1>6. UNCHANGED <<rows, issued, key, form, merged, overtaken>>
  BY DEF handleSubmit
<1>7. RequestsKnow'
  BY <1>4, <1>5, <1>6 DEF IInv, TypeOK, KInv, RequestsKnow, ReqKnows, Concerns
<1>8. FormsKnow'
  BY <1>6 DEF KInv, FormsKnow, FormKnows, Concerns
<1>9. CarriedFresh'
  BY <1>1, <1>5, <1>6 DEF IInv, TypeOK, KInv, CarriedFresh, Broken, Readable
<1>10. WebhooksBlank' /\ OvertakenCarry'
  BY <1>6 DEF KInv, WebhooksBlank, OvertakenCarry
<1> QED BY <1>7, <1>8, <1>9, <1>10 DEF KInv

\* A refusal gives up what the handler carried.
LEMMA RefuseKeeps ==
  ASSUME TypeOK, KInv, NEW e \in Editors, Refuse(e)
  PROVE  KInv'
<1>1. /\ req' = [req EXCEPT ![e] = Null] /\ merged' = [merged EXCEPT ![e] = Null]
      /\ overtaken' = overtaken \ {e}
      /\ UNCHANGED <<rows, issued, key, form>>
  BY DEF Refuse, Answered
<1>2. RequestsKnow'
  BY <1>1 DEF TypeOK, KInv, RequestsKnow, ReqKnows, Concerns
<1>3. FormsKnow'
  BY <1>1 DEF KInv, FormsKnow, FormKnows, Concerns
<1>4. CarriedFresh' /\ OvertakenCarry'
  BY <1>1 DEF TypeOK, KInv, CarriedFresh, OvertakenCarry, Broken, Readable
<1>5. WebhooksBlank'
  BY <1>1 DEF KInv, WebhooksBlank
<1> QED BY <1>2, <1>3, <1>4, <1>5 DEF KInv

\* A save that is answered leaves the others' forms and requests as they were.
LEMMA OthersKnow ==
  ASSUME TypeOK, FormsKnow, RequestsKnow, Onward, NEW e \in Editors,
         form' = [form EXCEPT ![e] = Null] \/ UNCHANGED form,
         req' = [req EXCEPT ![e] = Null] \/ UNCHANGED req
  PROVE  FormsKnow' /\ RequestsKnow'
<1>1. \A d \in Editors : form'[d] # Null => form[d] # Null /\ form'[d] = form[d]
  BY DEF TypeOK
<1>2. \A d \in Editors : req'[d] # Null => req[d] # Null /\ req'[d] = req[d]
  BY DEF TypeOK
<1> QED BY <1>1, <1>2, StillKnown DEF FormsKnow, RequestsKnow

\* A new row takes an id no form or request is about.
LEMMA CreateKeeps ==
  ASSUME IInv, KInv, NEW e \in Editors, HandleCreateChannel(e)
  PROVE  KInv'
<1>1. CASE Refuse(e)
  BY <1>1, RefuseKeeps DEF IInv
<1>2. CASE ~Refuse(e)
  <2> DEFINE row == [name |-> req[e].name, type |-> req[e].type,
                     config |-> Filled(req[e].config), sealed |-> key]
  <2>1. PICK id \in Ids \ issued : rows' = [rows EXCEPT ![id] = row] /\ issued' = issued \cup {id}
    BY <1>2 DEF HandleCreateChannel
  <2>2. /\ req[e] # Null /\ req[e].target = New
        /\ req' = [req EXCEPT ![e] = Null] /\ merged' = [merged EXCEPT ![e] = Null]
        /\ form' = [form EXCEPT ![e] = Null]
        /\ key' = key /\ overtaken' = overtaken
    BY <1>2 DEF HandleCreateChannel, Saved, Answered
  <2>3. ReqKnows(req[e])
    BY <2>2 DEF KInv, RequestsKnow
  <2>4. ~SecretField(row.type) => row.config.secret = Blank
    BY <2>3 DEF ReqKnows, Filled
  <2> HIDE DEF row
  <2>5. \A i \in Ids : i # id => rows'[i] = rows[i]
    BY <2>1
  <2>6. Onward
    BY <2>1, <2>5 DEF Onward
  <2>7. FormsKnow' /\ RequestsKnow'
    BY <2>2, <2>6, OthersKnow DEF IInv, KInv
  <2>8. WebhooksBlank'
    BY <2>1, <2>4 DEF IInv, TypeOK, KInv, WebhooksBlank
  <2>9. \A f \in Editors : merged'[f] # Null =>
          f # e /\ merged'[f] = merged[f] /\ req'[f] = req[f] /\ merged[f] # Null
    BY <2>2 DEF IInv, TypeOK
  <2>10. \A f \in Editors : merged[f] # Null => req[f].target \in Ids /\ req[f].target # id
    BY <2>1 DEF IInv, TypeOK, CarriedValidates
  <2>11. CarriedFresh'
    BY <2>2, <2>5, <2>9, <2>10 DEF KInv, CarriedFresh, Broken, Readable
  <2>12. merged[e] = Null
    BY <2>2, <2>10
  <2>13. OvertakenCarry'
    BY <2>2, <2>12 DEF IInv, TypeOK, KInv, OvertakenCarry
  <2> QED BY <2>7, <2>8, <2>11, <2>13 DEF KInv
<1> QED BY <1>1, <1>2

\* What the read makes of the row is fresh by construction; a webhook's has no credential.
LEMMA ReadKeeps ==
  ASSUME IInv, KInv, NEW e \in Editors, ReadForUpdate(e)
  PROVE  KInv'
<1>1. CASE Refuse(e)
  BY <1>1, RefuseKeeps DEF IInv
<1>2. CASE ~Refuse(e)
  <2> DEFINE row == rows[req[e].target]
             whole == Merged(Readable(row), req[e].config)
  <2>1. /\ req[e] # Null /\ row # Null /\ merged[e] = Null
        /\ req[e].target # New
        /\ merged' = [merged EXCEPT ![e] = whole]
        /\ UNCHANGED <<rows, issued, key, form, req, overtaken>>
    BY <1>2 DEF ReadForUpdate, mergeConfig
  <2>2. ReqKnows(req[e]) /\ req[e].target \in Ids
    BY <2>1 DEF IInv, TypeOK, Req, KInv, RequestsKnow
  <2>3. ~SecretField(req[e].type) => whole.secret = Blank
    <3>1. ~SecretField(req[e].type) => Readable(row).secret = Blank
      BY <2>1, <2>2 DEF ReqKnows, Concerns, Readable, NoConfig, KInv, WebhooksBlank
    <3> QED BY <2>2, <3>1 DEF ReqKnows, Merged
  <2>4. e \notin overtaken
    BY <2>1 DEF KInv, OvertakenCarry
  <2>5. FormsKnow' /\ RequestsKnow' /\ WebhooksBlank'
    BY <2>1 DEF KInv, FormsKnow, FormKnows, RequestsKnow, ReqKnows, Concerns, WebhooksBlank
  <2>6. OvertakenCarry'
    BY <2>1, <2>4 DEF IInv, TypeOK, KInv, OvertakenCarry
  <2>7. CarriedFresh'
    <3> SUFFICES ASSUME NEW f \in Editors, merged'[f] # Null
                 PROVE  /\ ~SecretField(req[f].type) => merged'[f].secret = Blank
                        /\ LET now == rows[req[f].target]
                           IN now # Null => IF f \in overtaken THEN ~Broken(now)
                                            ELSE merged'[f] = Merged(Readable(now), req[f].config)
      BY <2>1 DEF CarriedFresh, Broken, Readable
    <3>1. CASE f = e
      BY <3>1, <2>1, <2>3, <2>4 DEF IInv, TypeOK
    <3>2. CASE f # e
      BY <3>2, <2>1 DEF IInv, TypeOK, KInv, CarriedFresh
    <3> QED BY <3>1, <3>2
  <2> QED BY <2>5, <2>6, <2>7 DEF KInv
<1> QED BY <1>1, <1>2

\* A write overtakes whoever read the same row before, and seals it with the current key.
LEMMA WriteKeeps ==
  ASSUME IInv, KInv, NEW e \in Editors, WriteUpdate(e)
  PROVE  KInv'
<1>1. CASE Refuse(e)
  BY <1>1, RefuseKeeps DEF IInv
<1>2. CASE ~Refuse(e)
  <2> DEFINE id == req[e].target
             row == [name |-> req[e].name, type |-> rows[id].type,
                     config |-> merged[e], sealed |-> key]
  <2>1. /\ merged[e] # Null /\ rows[id] # Null
        /\ rows' = [rows EXCEPT ![id] = row]
        /\ overtaken' = {f \in Editors \ {e} :
                           f \in overtaken \/ (merged[f] # Null /\ req[f].target = id)}
        /\ req' = [req EXCEPT ![e] = Null] /\ merged' = [merged EXCEPT ![e] = Null]
        /\ form' = [form EXCEPT ![e] = Null]
        /\ issued' = issued /\ key' = key
    BY <1>2 DEF WriteUpdate, Saved, Answered
  <2>2. /\ ReqKnows(req[e]) /\ id \in Ids /\ id # New
        /\ ~SecretField(req[e].type) => merged[e].secret = Blank
    BY <2>1 DEF IInv, TypeOK, CarriedValidates, KInv, RequestsKnow, CarriedFresh
  <2>3. /\ row.type = rows[id].type /\ ~Broken(row)
        /\ ~SecretField(row.type) => row.config.secret = Blank
    BY <2>1, <2>2 DEF Broken, ReqKnows, Concerns
  <2> HIDE DEF row
  <2>4. rows'[id] = row /\ \A i \in Ids : i # id => rows'[i] = rows[i]
    BY <2>1, <2>2 DEF IInv, TypeOK
  <2>5. Onward
    BY <2>1, <2>3, <2>4 DEF Onward
  <2>6. FormsKnow' /\ RequestsKnow'
    BY <2>1, <2>5, OthersKnow DEF IInv, KInv
  <2>7. WebhooksBlank'
    BY <2>3, <2>4 DEF KInv, WebhooksBlank
  <2>8. \A f \in Editors : merged'[f] # Null =>
          f # e /\ merged'[f] = merged[f] /\ req'[f] = req[f] /\ merged[f] # Null
    BY <2>1 DEF IInv, TypeOK
  <2>9. OvertakenCarry'
    BY <2>1 DEF IInv, TypeOK, KInv, OvertakenCarry
  <2>10. CarriedFresh'
    <3> SUFFICES ASSUME NEW f \in Editors, merged'[f] # Null
                 PROVE  /\ ~SecretField(req'[f].type) => merged'[f].secret = Blank
                        /\ LET now == rows'[req'[f].target]
                           IN now # Null => IF f \in overtaken' THEN ~Broken(now)
                                            ELSE merged'[f] = Merged(Readable(now), req'[f].config)
      BY <2>1 DEF CarriedFresh, Broken, Readable
    <3>1. f # e /\ merged'[f] = merged[f] /\ req'[f] = req[f] /\ merged[f] # Null
      BY <2>8
    <3>2. req[f].target \in Ids
      BY <3>1 DEF IInv, TypeOK, CarriedValidates
    <3>3. ~SecretField(req[f].type) => merged[f].secret = Blank
      BY <3>1 DEF KInv, CarriedFresh
    <3>4. CASE req[f].target = id
      BY <3>1, <3>3, <3>4, <2>1, <2>3, <2>4
    <3>5. CASE req[f].target # id
      <4>1. rows'[req[f].target] = rows[req[f].target] /\ (f \in overtaken' <=> f \in overtaken)
        BY <3>1, <3>2, <3>5, <2>1, <2>4
      <4> QED BY <4>1, <3>1, <3>3 DEF KInv, CarriedFresh
    <3> QED BY <3>4, <3>5
  <2> QED BY <2>6, <2>7, <2>9, <2>10 DEF KInv
<1> QED BY <1>1, <1>2

\* A row deleted asks nothing of those who read it.
LEMMA DeleteKeeps ==
  ASSUME IInv, KInv, NEW id \in Ids, HandleDeleteChannel(id)
  PROVE  KInv'
<1>1. /\ rows' = [rows EXCEPT ![id] = Null]
      /\ UNCHANGED <<issued, key, form, req, merged, overtaken>>
  BY DEF HandleDeleteChannel
<1>2. \A i \in Ids : rows'[i] # Null => rows'[i] = rows[i] /\ rows[i] # Null
  BY <1>1 DEF IInv, TypeOK
<1>3. Onward
  BY <1>1, <1>2 DEF Onward
<1>4. FormsKnow' /\ RequestsKnow'
  BY <1>1, <1>3, StillKnown DEF IInv, KInv, FormsKnow, RequestsKnow
<1>5. WebhooksBlank' /\ OvertakenCarry'
  BY <1>1, <1>2 DEF KInv, WebhooksBlank, OvertakenCarry
<1>6. \A f \in Editors : merged[f] # Null => req[f].target \in Ids
  BY DEF IInv, TypeOK, CarriedValidates
<1>7. CarriedFresh'
  BY <1>1, <1>2, <1>6 DEF KInv, CarriedFresh, Broken, Readable
<1> QED BY <1>4, <1>5, <1>7 DEF KInv

\* Another key finds no handler carrying what it read under the old one.
LEMMA RestartKeeps ==
  ASSUME KInv, Restart
  PROVE  KInv'
BY DEF Restart, KInv, FormsKnow, FormKnows, RequestsKnow, WebhooksBlank, CarriedFresh,
       OvertakenCarry, Concerns

\* No step breaks it.
LEMMA NextKInv ==
  ASSUME Bulleted, IInv, KInv, [Next]_vars
  PROVE  KInv'
<1>1. ASSUME NEW e \in Editors, Edit(e) PROVE KInv'
  BY <1>1, EditKeeps, SubmitKeeps DEF IInv
<1>2. ASSUME NEW e \in Editors, Handle(e) PROVE KInv'
  BY <1>2, CreateKeeps, ReadKeeps, WriteKeeps DEF Handle
<1>3. CASE UNCHANGED vars
  BY <1>3 DEF vars, KInv, FormsKnow, FormKnows, RequestsKnow, ReqKnows, WebhooksBlank,
              CarriedFresh, OvertakenCarry, Concerns, Broken, Readable
<1> QED BY <1>1, <1>2, <1>3, DeleteKeeps, RestartKeeps DEF Next

\* With transports masked by bullets it holds of every reachable state.
LEMMA Kept ==
  ASSUME Bulleted
  PROVE  Spec => [](IInv /\ KInv)
<1>1. IInv /\ KInv /\ [Next]_vars => (IInv /\ KInv)'
  BY NextIInv, NextKInv
<1> QED BY <1>1, InitIInv, InitKInv, PTL DEF Spec

\* What an update that is not refused writes is what the handler carries.
LEMMA WritesCarried ==
  ASSUME IInv, NEW e \in Editors, WriteUpdate(e), rows' # rows
  PROVE  /\ merged[e] # Null /\ req[e] # Null /\ req[e] \in Req
         /\ rows[req[e].target] # Null /\ rows[req[e].target] \in Row
         /\ rows'[req[e].target].config = merged[e]
         /\ Validate(rows[req[e].target].type, merged[e])
<1>1. /\ merged[e] # Null /\ rows[req[e].target] # Null
      /\ rows' = [rows EXCEPT ![req[e].target] =
           [name |-> req[e].name, type |-> @.type, config |-> merged[e], sealed |-> key]]
  BY DEF WriteUpdate, Refuse
<1>2. req[e] # Null /\ req[e].target \in Ids
  BY <1>1 DEF IInv, TypeOK, CarriedValidates
<1> QED BY <1>1, <1>2 DEF IInv, TypeOK, CarriedValidates

\* mergeConfig: with transports masked by bullets, a save whose credential was not
\* entered anew keeps the stored one, whatever else was edited, deleted or saved
\* between opening the form and saving it, unless a save of the same channel came
\* between the read and the write.
THEOREM ChannelsKeepsUntouched ==
  ASSUME Bulleted
  PROVE  Spec => KeepsUntouched
<1>1. IInv /\ KInv /\ [Next]_vars =>
        [\A e \in Editors :
           /\ WriteUpdate(e)
           /\ rows' # rows
           /\ ~req[e].typed
           /\ e \notin overtaken
           => rows'[req[e].target].config.secret = rows[req[e].target].config.secret]_vars
  <2> SUFFICES ASSUME IInv, KInv, NEW e \in Editors, WriteUpdate(e), rows' # rows,
                      ~req[e].typed, e \notin overtaken
               PROVE  rows'[req[e].target].config.secret = rows[req[e].target].config.secret
    OBVIOUS
  <2> DEFINE row == rows[req[e].target]
  <2>1. /\ merged[e] # Null /\ req[e] # Null /\ req[e] \in Req /\ row # Null /\ row \in Row
        /\ rows'[req[e].target].config = merged[e]
        /\ Validate(row.type, merged[e])
    BY WritesCarried
  <2>2. ReqKnows(req[e]) /\ req[e].target \in Ids
    BY <2>1 DEF KInv, RequestsKnow, IInv, TypeOK, CarriedValidates
  <2>3. merged[e].secret = Readable(row).secret
    <3>1. merged[e] = Merged(Readable(row), req[e].config)
      BY <2>1 DEF KInv, CarriedFresh
    <3>2. req[e].config.secret \in {Dropped, Blank, Dots}
      BY <2>2 DEF ReqKnows
    <3> QED BY <3>1, <3>2 DEF Merged
  <2>4. CASE ~Broken(row)
    BY <2>1, <2>3, <2>4 DEF Readable
  <2>5. CASE Broken(row)
    <3>1. merged[e].secret = Blank
      BY <2>3, <2>5 DEF Readable, NoConfig
    <3>2. ~SecretField(row.type)
      BY <2>1, <3>1 DEF Validate
    <3>3. row.config.secret = Blank
      BY <2>1, <2>2, <3>2 DEF KInv, WebhooksBlank
    <3> QED BY <2>1, <3>1, <3>3
  <2> QED BY <2>4, <2>5
<1> QED BY <1>1, Kept, PTL DEF Spec, KeepsUntouched

\* Of a row sealed with a key that was lost nothing is kept: the update that repairs it
\* brings both fields, and the credential is one the editor entered.
THEOREM ChannelsRepairedWhole ==
  ASSUME Bulleted
  PROVE  Spec => RepairedWhole
<1>1. IInv /\ KInv /\ [Next]_vars =>
        [\A e \in Editors :
           /\ WriteUpdate(e)
           /\ rows' # rows
           /\ Broken(rows[req[e].target])
           => /\ rows'[req[e].target].config = Filled(req[e].config)
              /\ SecretField(rows[req[e].target].type) => req[e].typed]_vars
  <2> SUFFICES ASSUME IInv, KInv, NEW e \in Editors, WriteUpdate(e), rows' # rows,
                      Broken(rows[req[e].target])
               PROVE  /\ rows'[req[e].target].config = Filled(req[e].config)
                      /\ SecretField(rows[req[e].target].type) => req[e].typed
    OBVIOUS
  <2> DEFINE row == rows[req[e].target]
             sent == req[e].config
  <2>1. /\ merged[e] # Null /\ req[e] # Null /\ req[e] \in Req /\ row # Null /\ row \in Row
        /\ rows'[req[e].target].config = merged[e]
        /\ Validate(row.type, merged[e])
    BY WritesCarried
  <2>2. ReqKnows(req[e]) /\ req[e].target \in Ids /\ req[e].target # New
    BY <2>1 DEF KInv, RequestsKnow, IInv, TypeOK, CarriedValidates
  <2>3. row.type = req[e].type
    BY <2>1, <2>2 DEF ReqKnows, Concerns
  <2>4. merged[e] = Merged(NoConfig, sent)
    <3>1. e \notin overtaken /\ merged[e] = Merged(Readable(row), sent)
      BY <2>1 DEF KInv, CarriedFresh
    <3> QED BY <3>1 DEF Readable
  <2>5. SecretField(row.type) => sent.secret \notin {Dropped, Blank, Dots}
    BY <2>1, <2>4 DEF Validate, Merged, NoConfig
  <2>6. ~SecretField(row.type) => sent.secret = Dropped
    BY <2>2, <2>3 DEF ReqKnows
  <2>7. merged[e] = Filled(sent)
    BY <2>4, <2>5, <2>6 DEF Merged, Filled, NoConfig
  <2> QED BY <2>1, <2>2, <2>5, <2>7 DEF ReqKnows
<1> QED BY <1>1, Kept, PTL DEF Spec, RepairedWhole
================================================================================
