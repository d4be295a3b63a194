---------------------------- MODULE MCEntitySync ----------------------------
(* Small instances of EntitySync. *)
EXTENDS EntitySync, TLC

CONSTANTS a, b

\* The listing of an entity's prefix fails, that of the tombstones, or both.
Listings == {{"proxy", "group"}, {"tombstone"}, BasePrefixes}

Both == {"proxy", "group"}
Nothing == {}

\* The devices are alike, so the entity is created on one of them; time that
\* passes before anything is uploaded makes no difference.  The properties are
\* about what nobody has deleted: with a deletion nothing goes wrong but its
\* requests.
Relevant ==
  /\ kind' # kind => disk'[a] # disk[a]
  /\ now' # now => \E e \in Entities : object[e] # NoCopy
  /\ deleted' # deleted => faults = 0
  /\ deleted # {} /\ faults' # faults => removing' # removing /\ stage' = stage
=============================================================================
