---------------------------- MODULE MCCInterface ----------------------------
(* A small instance of the C interface. *)
EXTENDS CInterface, TLC

GitFields == {"local_repo_path", "remote_repo_url", "target_branch_name"}
MCConfigs ==
  {[json |-> TRUE, type |-> "filesystem", fields |-> {"storage_backend", "type", "path"}],
   [json |-> TRUE, type |-> "git-normal", fields |-> {"storage_backend", "type"} \cup GitFields],
   [json |-> TRUE, type |-> "git-normal", fields |-> {"storage_backend", "type", "path"}],
   [json |-> FALSE, type |-> "", fields |-> {}]}
Symmetry == Permutations(Threads) \cup Permutations(Names) \cup Permutations(Namespaces)
              \cup Permutations(WhoAmIs) \cup Permutations(ResultIds)
=============================================================================
