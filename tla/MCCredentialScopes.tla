---------------------------- MODULE MCCredentialScopes ----------------------------
(* Instances of CredentialScopes for TLC: two branches on one agent, each with one of   *)
(* the nests; every step is in one of them, those with files both alone and nested.     *)
EXTENDS CredentialScopes, TLC

CONSTANTS a1

OneAgent == [b \in Branches |-> a1]
Symmetry == Permutations(Branches)

MCNests ==
    {<<WithNpmrc>>,
     <<WithNodeJSEnvUnix, WithNpmrc>>,
     <<WithGoEnvUnix, WithAzureCredentials, WithTotpVault>>,
     <<WithVaultToken, WithAWSEnv>>,
     <<WithGCPEnv>>,
     <<WithAPMEnv, WithHubCredentials>>,
     <<WithOtelEnv, RubygemsLogin>>,
     <<WithDockerEnv, WithAzureCredentials>>,
     <<WithGhEnv, WithSecretVault>>,
     <<WithTerraformEnv, WithGCPEnv, WithEsEnv>>,
     <<WithPackerEnv, WithAzureEnv, WithCloudEnv>>} \cup
    {WithClusterEnv(TRUE, kibana, TRUE) : kibana \in BOOLEAN}
====================================================================================
