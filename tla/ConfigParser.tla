---------------------------- MODULE ConfigParser ----------------------------
(* config_parser.cpp: configuration entries by key, replaced by each stream.  *)
EXTENDS RecordStream

CONSTANT ConfigEntries       \* [id, value]: keys and values, as far as they are told apart

VARIABLE entries

ConfigTypeOK == \A key \in DOMAIN entries : entries[key] \in ConfigEntries /\ entries[key].id = key

ConfigInit == entries = << >>

ConfigParses(s) == Whole(s, FALSE)

\* A plausible mistake: the new entries are merged into the old.
ParseBinary_Merges(s) == entries' = IF s.header THEN PutAll(entries, Taken(s, FALSE)) ELSE entries

\* Cleared as soon as the header is accepted: a stream refused later leaves its first entries.
ParseBinary(s) == entries' = IF s.header THEN PutAll(<< >>, Taken(s, FALSE)) ELSE entries

\* A value shorter than four bytes is no number.
GetUint32(key) == {v \in {entries[k].value : k \in DOMAIN entries \cap {key}} : Len(v) >= 4}
GetBytes(key) == {entries[k].value : k \in DOMAIN entries \cap {key}}

ConfigClear == entries' = << >>

\* config_validate_entry_0 .. 84, n its number.
config_validate_entry(n, key, type) == key # 0 /\ type <= n % 8
=============================================================================
