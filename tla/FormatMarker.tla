---------------------------- MODULE FormatMarker ----------------------------
(***************************************************************************)
(* The FORMAT file that says which product model owns a directory          *)
(* (ensureKeyedFormat in keyed_storage.go, ensureFormat in octetdb.go).    *)
(* The three opens (Open, OpenKeyed, OpenCatalog) differ only in the       *)
(* contents they expect.  The file is created as FORMAT.tmp, synced and    *)
(* renamed, so its contents are always whole; markerMedia holds what power *)
(* loss may leave of the two names until the directory is synced.          *)
(***************************************************************************)
CONSTANT
    Models          \* the FORMAT contents of the product models

VARIABLES
    marker,         \* contents of FORMAT, or "none"
    markerTmp,      \* FORMAT.tmp exists
    markerMedia,    \* the pairs <<marker, markerTmp>> power loss may leave
    populated,      \* the directory has files other than the two
    opener,         \* the model an open is running for
    markerPhase     \* "idle", "rename", "sync", "matched" or "refused"

markerVars == <<marker, markerTmp, markerMedia, populated, opener, markerPhase>>
markerFile == <<marker, markerTmp, markerMedia, populated>>

MarkerInit ==
    /\ marker = "none" /\ markerTmp = FALSE /\ markerMedia = {<<"none", FALSE>>}
    /\ populated = FALSE /\ opener \in Models /\ markerPhase = "idle"

\* The names changed: until the next syncDirectory power loss may leave any of the states.
MarkerChanges(m, tmp) ==
    marker' = m /\ markerTmp' = tmp /\ markerMedia' = markerMedia \cup {<<m, tmp>>}

\* Altered inspectMarker: a directory without a marker is taken over whatever it holds.
AdoptPopulated(m) ==
    /\ opener' = m /\ UNCHANGED populated
    /\ markerPhase' = IF marker = m THEN "matched"
                      ELSE IF marker # "none" THEN "refused" ELSE "rename"
    /\ IF markerPhase' = "rename" THEN MarkerChanges(marker, TRUE)
       ELSE UNCHANGED <<marker, markerTmp, markerMedia>>

\* An existing marker decides.  Without one only an empty directory is taken over, or
\* one whose creation was cut short: a FORMAT.tmp left there is replaced, and the new one
\* written, synced and closed.
inspectMarker(m) ==
    /\ opener' = m /\ UNCHANGED populated
    /\ markerPhase' = IF marker = m THEN "matched"
                      ELSE IF marker # "none" \/ populated THEN "refused" ELSE "rename"
    /\ IF markerPhase' = "rename" THEN MarkerChanges(marker, TRUE)
       ELSE UNCHANGED <<marker, markerTmp, markerMedia>>

renameMarker ==
    /\ markerPhase = "rename" /\ markerPhase' = "sync"
    /\ MarkerChanges(opener, FALSE) /\ UNCHANGED <<populated, opener>>

\* syncDirectory of the database directory, whoever calls it; onDisk is FALSE on Windows.
SyncedMarker(onDisk) == markerMedia' = IF onDisk THEN {<<marker, markerTmp>>} ELSE markerMedia

\* Altered syncMarker: the open goes on without the directory Sync.
MarkerUnsynced(onDisk) ==
    /\ markerPhase = "sync" /\ markerPhase' = "matched" /\ onDisk \in BOOLEAN
    /\ UNCHANGED <<markerFile, opener>>

syncMarker(onDisk) ==
    /\ markerPhase = "sync" /\ markerPhase' = "matched"
    /\ SyncedMarker(onDisk) /\ UNCHANGED <<marker, markerTmp, populated, opener>>

\* A step fails: the temporary file is removed and the open returns ErrorStorage.
markerFails ==
    /\ markerPhase \in {"rename", "sync"} /\ markerPhase' = "idle"
    /\ MarkerChanges(marker, FALSE) /\ UNCHANGED <<populated, opener>>

\* Nothing is left of an open whose process ended.
markerCrash == markerPhase' = "idle" /\ UNCHANGED <<markerFile, opener>>

\* Power loss picks the names; "kept" is whether other files are left.
markerPowerLoss(kept) ==
    /\ \E left \in markerMedia :
         marker' = left[1] /\ markerTmp' = left[2] /\ markerMedia' = {left}
    /\ populated' = kept /\ markerPhase' = "idle" /\ UNCHANGED opener
=============================================================================
