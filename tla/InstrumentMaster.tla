-------------------------- MODULE InstrumentMaster --------------------------
(***************************************************************************)
(* The instrument master of one tenant: InstrumentStoreMixin of            *)
(* cherryfin/intelligence/store_instruments.py, statement by statement.    *)
(* Its two tables are                                                      *)
(*   instruments   for each instrument_id, the instrument or Absent        *)
(*   identifiers   for each identifier key (scheme, value and venue), the  *)
(*                 id of the instrument it belongs to, or Absent           *)
(* An instrument has an id, a set of identifier keys and other content.    *)
(***************************************************************************)

CONSTANTS
  InstrumentIds,   \* instrument_id
  IdentifierKeys,  \* InstrumentIdentifier.key
  Absent           \* no such row

NoInstruments ==
  [instruments |-> [i \in InstrumentIds |-> Absent],
   identifiers |-> [k \in IdentifierKeys |-> Absent]]

\* The identifier belongs to another instrument.
IsTaken(master, key, id) == master.identifiers[key] \notin {Absent, id}

\* INSERT INTO instruments, and what its primary key allows.
MayAddInstrument(master, instrument) ==
  master.instruments[instrument.id] = Absent

AddInstrument(master, instrument) ==
  [master EXCEPT !.instruments[instrument.id] = instrument]

\* INSERT INTO instrument_identifiers, and what its primary key and its foreign
\* key allow.
MayAddIdentifier(master, key, id) ==
  /\ master.identifiers[key] = Absent
  /\ master.instruments[id] # Absent

AddIdentifier(master, key, id) == [master EXCEPT !.identifiers[key] = id]

\* resolve_instrument: the join of the two tables, or Absent.
ResolveInstrument(master, key) ==
  IF master.identifiers[key] = Absent THEN Absent
  ELSE master.instruments[master.identifiers[key]]
=============================================================================
