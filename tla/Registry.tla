------------------------------ MODULE Registry ------------------------------
(***************************************************************************)
(* XFS::Registry::Key (lfs/registry.cpp): one value of one configuration   *)
(* key, used by several programs at once, each through a Key object of its *)
(* own.  The key and its value are kept by the WFM functions of the XFS    *)
(* manager, each of which is one step.  value() takes two: it asks for the *)
(* size of the value first and reads the value into a string of that size  *)
(* afterwards.  A size counts the terminating NUL, as in setValue.         *)
(***************************************************************************)
EXTENDS Naturals

CONSTANTS Clients,      \* programs, each with one Key
          Texts,        \* what the value can be
          Size,         \* text -> its size
          Missing,      \* there is no such value
          MaxKeys       \* bound: times the key is created

ASSUME SizeAssumption == Size \in [Texts -> Nat \ {0}]
ASSUME MissingAssumption == Missing \notin Texts
ASSUME KeysAssumption == MaxKeys \in Nat

VARIABLES key,          \* number of the key that has the name, 0 when it is deleted
          keysMade,     \* keys created so far
          store,        \* the value
          handle,       \* client -> the key its _handle was opened for, 0 without a Key
          place,        \* client -> place in value()
          hasDefault,   \* client -> is its value() the one with a default?
          bufSize,      \* client -> bufSize
          result        \* client -> what its last value() returned or threw

\* History.
VARIABLE seen           \* client -> what the value was in the course of value()

registryVars == <<key, keysMade, store, handle, place, hasDefault, bufSize, result, seen>>

\* What a call of value() ends with.  whole: no part of the text is cut off.
Nothing == [kind |-> "none"]
Returns(t, whole) == [kind |-> "text", text |-> t, whole |-> whole]
Default == [kind |-> "default"]
Throws(code) == [kind |-> "throws", code |-> code]

RegistryInit ==
    /\ key = 0 /\ keysMade = 0 /\ store = Missing
    /\ handle = [c \in Clients |-> 0]
    /\ place = [c \in Clients |-> "idle"]
    /\ hasDefault = [c \in Clients |-> FALSE]
    /\ bufSize = [c \in Clients |-> 0]
    /\ result = [c \in Clients |-> Nothing]
    /\ seen = [c \in Clients |-> {}]

\* The values that clients in the middle of value() have seen come and go.
Note(new) ==
    seen' = [c \in Clients |-> IF place[c] = "idle" THEN seen[c] ELSE seen[c] \cup {new}]

Opened(c) == handle[c] # 0 /\ place[c] = "idle"

\* Does the handle of c still stand for the key?  If not, calls through it throw.
Valid(c) == handle[c] = key

-----------------------------------------------------------------------------

\* Key::Key: WFMCreateKey opens the key or creates it without values.  When it
\* fails the exception leaves no object, and no handle.
Create(c) ==
    /\ handle[c] = 0
    /\ \/ key # 0 /\ UNCHANGED <<key, keysMade>>
       \/ key = 0 /\ keysMade < MaxKeys /\ key' = keysMade + 1 /\ keysMade' = keysMade + 1
    /\ handle' = [handle EXCEPT ![c] = key']
    /\ UNCHANGED <<store, place, hasDefault, bufSize, result, seen>>

\* Key::~Key: WFMCloseKey.
Destroy(c) ==
    /\ Opened(c)
    /\ handle' = [handle EXCEPT ![c] = 0]
    /\ UNCHANGED <<key, keysMade, store, place, hasDefault, bufSize, result, seen>>

setValue(c, t) ==
    /\ Opened(c) /\ Valid(c)
    /\ store' = t
    /\ Note(t)
    /\ UNCHANGED <<key, keysMade, handle, place, hasDefault, bufSize, result>>

removeValue(c) ==
    /\ Opened(c) /\ Valid(c)
    /\ store' = Missing
    /\ Note(Missing)
    /\ UNCHANGED <<key, keysMade, handle, place, hasDefault, bufSize, result>>

\* WFMDeleteKey, through a Key for the key above: the value goes with the key.
removeKey ==
    /\ key # 0
    /\ key' = 0
    /\ store' = Missing
    /\ Note(Missing)
    /\ UNCHANGED <<keysMade, handle, place, hasDefault, bufSize, result>>

-----------------------------------------------------------------------------
(* value().                                                                *)

\* WFMQueryValue into a buffer of n bytes, for client c.
WFMQueryValue(c, n) ==
    IF ~Valid(c) THEN "WFS_ERR_CFG_INVALID_HKEY"
    ELSE IF store = Missing THEN "WFS_ERR_CFG_INVALID_NAME"
    ELSE IF Size[store] > n THEN "WFS_ERR_CFG_VALUE_TOO_LONG"
    ELSE "WFS_SUCCESS"

\* A mutant: every exception is answered with the default.
Caught_Any(c, code) == IF hasDefault[c] THEN Default ELSE Throws(code)

\* The catch of the value() with a default.
Caught(c, code) ==
    IF hasDefault[c] /\ code = "WFS_ERR_CFG_INVALID_NAME" THEN Default ELSE Throws(code)

value(c, withDefault) ==
    /\ Opened(c)
    /\ place' = [place EXCEPT ![c] = "size"]
    /\ hasDefault' = [hasDefault EXCEPT ![c] = withDefault]
    /\ seen' = [seen EXCEPT ![c] = {store}]
    /\ result' = [result EXCEPT ![c] = Nothing]
    /\ UNCHANGED <<key, keysMade, store, handle, bufSize>>

Ends(c, r) ==
    /\ place' = [place EXCEPT ![c] = "idle"]
    /\ result' = [result EXCEPT ![c] = r]

\* The size is asked for with no buffer: WFS_ERR_CFG_VALUE_TOO_LONG is expected.
AskSize(c) ==
    LET code == WFMQueryValue(c, 0) IN
    /\ place[c] = "size"
    /\ IF code \in {"WFS_SUCCESS", "WFS_ERR_CFG_VALUE_TOO_LONG"}
         THEN /\ bufSize' = [bufSize EXCEPT ![c] = Size[store]]
              /\ place' = [place EXCEPT ![c] = "read"]
              /\ UNCHANGED result
         ELSE Ends(c, Caught(c, code)) /\ UNCHANGED bufSize
    /\ UNCHANGED <<key, keysMade, store, handle, hasDefault, seen>>

\* A mutant: a value that has become too long is expected here as well.
ReadText_IgnoresTooLong(c) ==
    LET code == WFMQueryValue(c, bufSize[c]) IN
    /\ place[c] = "read"
    /\ Ends(c, IF code \in {"WFS_SUCCESS", "WFS_ERR_CFG_VALUE_TOO_LONG"}
                 THEN Returns(store, Size[store] <= bufSize[c]) ELSE Caught(c, code))
    /\ UNCHANGED <<key, keysMade, store, handle, hasDefault, bufSize, seen>>

\* The text is read.  The string keeps the bufSize + 1 bytes it was made with,
\* the NULs behind the text included.
ReadText(c) ==
    LET code == WFMQueryValue(c, bufSize[c]) IN
    /\ place[c] = "read"
    /\ Ends(c, IF code = "WFS_SUCCESS" THEN Returns(store, TRUE) ELSE Caught(c, code))
    /\ UNCHANGED <<key, keysMade, store, handle, hasDefault, bufSize, seen>>

-----------------------------------------------------------------------------

RegistryNext ==
    \/ \E c \in Clients : Create(c) \/ Destroy(c) \/ removeValue(c)
    \/ \E c \in Clients, t \in Texts : setValue(c, t)
    \/ removeKey
    \/ \E c \in Clients, d \in BOOLEAN : value(c, d)
    \/ \E c \in Clients : AskSize(c) \/ ReadText(c)

RegistrySpec == RegistryInit /\ [][RegistryNext]_registryVars

-----------------------------------------------------------------------------
(* Properties.                                                             *)

\* value() returns, whole, a text that the value had in the course of the call,
\* although others may make it longer, shorter or remove it between the two
\* queries.
ValueWasThere ==
    \A c \in Clients :
        result[c].kind = "text" => result[c].whole /\ result[c].text \in seen[c]

\* The default stands for a value that was missing in the course of the call: it
\* never hides one that is there but could not be read.
DefaultOnlyIfMissing ==
    \A c \in Clients : result[c].kind = "default" => Missing \in seen[c]
=============================================================================
