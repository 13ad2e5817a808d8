------------------------------ MODULE MCStores ------------------------------
(***************************************************************************)
(* TLC instance of MessageStore: a pair of agents with every message, or a *)
(* crowd of three with one, for the marks that three of them overwrite.    *)
(***************************************************************************)
EXTENDS Naturals, TLC

CONSTANTS Agents, MaxMessages, MaxIds, Recipients, Limit, Pair

VARIABLES messages, embedded, expired, sent, turn, draft, fields, excess, todo, readers,
          got, crowd

stores == <<messages, embedded, expired, sent, turn, draft, fields, excess, todo, readers,
            got, crowd>>

Messages == INSTANCE MessageStore WITH pc <- turn

ASSUME Messages!MessageStoreAssumption

StoresInit == Messages!Init /\ crowd \in BOOLEAN
StoresNext ==
  /\ Messages!Next
  /\ IF crowd THEN sent' <= 1 ELSE \A a \in Agents \ Pair : turn'[a] = turn[a]
  /\ UNCHANGED crowd
StoresSpec == StoresInit /\ [][StoresNext]_stores

\* See MessageStore: what every state of the message store satisfies.
MessagesInv == Messages!MessagesInv

StoresSymmetry == Permutations(Pair)
=============================================================================
