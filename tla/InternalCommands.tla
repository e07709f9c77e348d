-------------------------- MODULE InternalCommands --------------------------
(***************************************************************************)
(* handleInternalCommand: the key pair and the shared secret of the daemon *)
(* and the one reply to each command.  What OpenSSL computes is left out;  *)
(* that it may fail is not.                                                *)
(***************************************************************************)
EXTENDS Integers

CONSTANT MaxKeys   \* bound: attempts to generate a key pair

ASSUME MaxKeysAssumption == MaxKeys \in Nat

VARIABLES
  kp,      \* NULL, the number of the key pair, or Freed
  secret,  \* NULL, the number of the key pair it was derived from, or Garbage
  given,   \* history: the public keys given out since the daemon started
  keys     \* history: how often a key pair was generated, or was to be

keyVars == <<kp, secret, given, keys>>

NULL == 0
Freed == -1     \* kp points to memory that was freed
Garbage == -2   \* what is read there: a key of no key pair, and what comes of it

Command ==
  {"CREATE_KEY_PAIR", "GET_PUB_KEY", "DERIVE_SECRET", "AES_DECRYPT", "AES_ENCRYPT",
   "PUBLIC_DECRYPT", "INTERNAL_STATUS", "unknown"}

\* What a command carries: lengths that agree, less than a length, or lengths
\* that do not agree.
Form == {"right", "short", "wrong"}

Reply == [status : {"OK", "ERROR"}, subcommand : Command]

OK(c) == [status |-> "OK", subcommand |-> c]
ERROR(c) == [status |-> "ERROR", subcommand |-> c]

KeyTypeOK ==
  /\ kp \in {NULL, Freed} \cup 1 .. MaxKeys
  /\ secret \in {NULL, Garbage} \cup 1 .. MaxKeys
  /\ given \subseteq {Garbage} \cup 1 .. MaxKeys
  /\ keys \in 0 .. MaxKeys

KeyInit == kp = NULL /\ secret = NULL /\ given = {} /\ keys = 0

\* The keys that are found at p.
KeysAt(p) == IF p = Freed THEN Garbage ELSE p

\* generateKeyPair fills what was allocated for kp, or fails and it is freed.
generateKeyPair ==
  /\ keys < MaxKeys
  /\ keys' = keys + 1
  /\ kp' \in {keys', Freed}
  /\ UNCHANGED secret

\* The reply with the public key, or that it could not be generated.
Generated(reply) ==
  \/ kp' = Freed /\ reply = ERROR("CREATE_KEY_PAIR") /\ UNCHANGED given
  \/ kp' # Freed /\ reply = OK("CREATE_KEY_PAIR") /\ given' = given \cup {kp'}

\* A new key pair whether or not there is one.
CreateKeyPair_slip(form, reply) == generateKeyPair /\ Generated(reply)

\* The first key pair is kept.  When it cannot be generated, kp keeps pointing
\* to what was freed and later commands take what is there for the key pair.
CreateKeyPair(form, reply) ==
  \/ kp = NULL /\ generateKeyPair /\ Generated(reply)
  \/ /\ kp # NULL
     /\ reply = OK("CREATE_KEY_PAIR")
     /\ given' = given \cup {KeysAt(kp)}
     /\ UNCHANGED <<kp, secret, keys>>

GetPubKey(form, reply) ==
  \/ kp = NULL /\ reply = ERROR("GET_PUB_KEY") /\ UNCHANGED keyVars
  \/ /\ kp # NULL
     /\ reply = OK("GET_PUB_KEY")
     /\ given' = given \cup {KeysAt(kp)}
     /\ UNCHANGED <<kp, secret, keys>>

\* What deriveSecret may return: NULL when any of its steps fails.
deriveSecret == {NULL, KeysAt(kp)}

\* The reply is OK also when the secret could not be derived and is now NULL.
DeriveSecret(form, reply) ==
  \/ form # "right" /\ reply = ERROR("DERIVE_SECRET") /\ UNCHANGED keyVars
  \/ /\ form = "right"
     /\ kp # NULL
     /\ reply = OK("DERIVE_SECRET")
     /\ secret' \in deriveSecret
     /\ UNCHANGED <<kp, given, keys>>

AesDecrypt(form, reply) ==
  /\ reply = IF secret # NULL /\ form = "right" THEN OK("AES_DECRYPT") ELSE ERROR("AES_DECRYPT")
  /\ UNCHANGED keyVars

\* One that is too short is answered as if it were AES_DECRYPT.
AesEncrypt(form, reply) ==
  /\ reply = CASE secret = NULL \/ form = "wrong" -> ERROR("AES_ENCRYPT")
               [] secret # NULL /\ form = "short" -> ERROR("AES_DECRYPT")
               [] secret # NULL /\ form = "right" -> OK("AES_ENCRYPT")
  /\ UNCHANGED keyVars

\* The public key comes with the command: it may be none, or not the right one.
encryption_decryptWithPublicKey == {OK("PUBLIC_DECRYPT"), ERROR("PUBLIC_DECRYPT")}

PublicDecrypt(form, reply) ==
  /\ reply \in IF form = "right" THEN encryption_decryptWithPublicKey ELSE {ERROR("PUBLIC_DECRYPT")}
  /\ UNCHANGED keyVars

InternalStatus(form, reply) == reply = OK("INTERNAL_STATUS") /\ UNCHANGED keyVars

\* HCI_BRIDGE_ERROR, given as the subcommand, is the number of CREATE_KEY_PAIR.
UnknownCommand(form, reply) == reply = ERROR("CREATE_KEY_PAIR") /\ UNCHANGED keyVars

handleInternalCommand(command, form, reply) ==
  \/ command = "CREATE_KEY_PAIR" /\ CreateKeyPair(form, reply)
  \/ command = "GET_PUB_KEY" /\ GetPubKey(form, reply)
  \/ command = "DERIVE_SECRET" /\ DeriveSecret(form, reply)
  \/ command = "AES_DECRYPT" /\ AesDecrypt(form, reply)
  \/ command = "AES_ENCRYPT" /\ AesEncrypt(form, reply)
  \/ command = "PUBLIC_DECRYPT" /\ PublicDecrypt(form, reply)
  \/ command = "INTERNAL_STATUS" /\ InternalStatus(form, reply)
  \/ command = "unknown" /\ UnknownCommand(form, reply)

\* The command that may end the daemon instead: it derives a secret from no key
\* pair, it uses a key pair that was freed, or its length reaches past its end
\* (DERIVE_SECRET prints as many octets before it compares).
MayCrash(command, form) ==
  \/ command = "DERIVE_SECRET" /\ form = "right" /\ kp = NULL
  \/ command \in {"CREATE_KEY_PAIR", "GET_PUB_KEY", "DERIVE_SECRET"} /\ kp = Freed
  \/ command = "DERIVE_SECRET" /\ form = "wrong"

\* A shared secret that commands are encrypted with is that of the key pair the
\* daemon has, and no other public key was given out to any client since it
\* started.  When the one attempt to generate a key pair failed there is none:
\* every public key given out since, and the secret, is then garbage, which never
\* passes for the secret of a key pair or stands beside one.
SecretOfKeyPair ==
  secret # NULL =>
    \/ kp \in 1 .. MaxKeys /\ secret = kp /\ given \subseteq {kp}
    \/ kp = Freed /\ secret = Garbage /\ given \subseteq {Garbage}

=============================================================================
