----------------------------- MODULE MCUtilities -----------------------------
(***************************************************************************)
(* The parts of the library and the tools that run in one thread and have  *)
(* nothing to do with each other, for one run of TLC: a behaviour is about *)
(* one of them, the subject, and the others stay as they begin.            *)
(***************************************************************************)
EXTENDS MLinkedList, MBins, MMb64, MCFollowLink, MCrypto, MFibonacci, MQueueSeq

CONSTANTS letter, blank   \* characters besides Colon

VARIABLE subject

\* Init, Next and vars without a prefix are those of MQueueSeq.
queueVars == vars

MCvars == <<subject, listVars, splitVars, binsVars, mb64Vars, followVars, cryptoVars, fibonacciVars,
            queueVars>>

\* One of them has a colon in its name.
PathDirectories == {<<letter>>, <<letter, letter>>, <<letter, Colon>>}

DirectoryEntries ==
    {[type |-> "DT_REG", stat |-> "executable"], [type |-> "DT_REG", stat |-> "not executable"],
     [type |-> "DT_LNK", stat |-> "executable"], [type |-> "DT_LNK", stat |-> "fails"],
     [type |-> "DT_DIR", stat |-> "executable"]}

DirectoryListings == {{e} : e \in DirectoryEntries} \cup {DirectoryEntries}

MCInit ==
    /\ subject \in {"list", "msplit", "bins", "mb64", "followlink", "crypto", "sfibonacci", "queue"}
    /\ ListInit /\ BinsInit /\ Mb64Init /\ FollowInit /\ CryptoInit /\ FibonacciInit
    /\ Init

OnlyList ==
    UNCHANGED <<subject, splitVars, binsVars, mb64Vars, followVars, cryptoVars,
                fibonacciVars, queueVars>>
OnlyFollow ==
    UNCHANGED <<subject, listVars, splitVars, binsVars, mb64Vars, cryptoVars,
                fibonacciVars, queueVars>>

MCNext ==
    \/ subject = "list" /\ ListNext /\ OnlyList
    \/ subject = "followlink" /\ FollowNext /\ OnlyFollow
    \/ /\ subject = "msplit" /\ SplitNext
       /\ UNCHANGED <<subject, listVars, binsVars, mb64Vars, followVars, cryptoVars,
                      fibonacciVars, queueVars>>
    \/ /\ subject = "bins" /\ BinsNext
       /\ UNCHANGED <<subject, listVars, mb64Vars, followVars, cryptoVars,
                      fibonacciVars, queueVars>>
    \/ /\ subject = "mb64" /\ Mb64Next
       /\ UNCHANGED <<subject, listVars, splitVars, binsVars, followVars, cryptoVars,
                      fibonacciVars, queueVars>>
    \/ /\ subject = "crypto" /\ CryptoNext
       /\ UNCHANGED <<subject, listVars, splitVars, binsVars, mb64Vars, followVars,
                      fibonacciVars, queueVars>>
    \/ /\ subject = "sfibonacci" /\ FibonacciNext
       /\ UNCHANGED <<subject, listVars, splitVars, binsVars, mb64Vars, followVars, cryptoVars,
                      queueVars>>
    \/ /\ subject = "queue" /\ Next
       /\ UNCHANGED <<subject, listVars, splitVars, binsVars, mb64Vars, followVars, cryptoVars,
                      fibonacciVars>>

\* The fairness of ListFairSpec and of FollowSpec.
MCSpec ==
    /\ MCInit /\ [][MCNext]_MCvars
    /\ WF_MCvars(subject = "list" /\ RemoveLoop /\ OnlyList)
    /\ WF_MCvars(subject = "followlink" /\ FollowStep /\ OnlyFollow)
=============================================================================
