SPECIFICATION Spec
CONSTANTS
  h1 = h1
  h2 = h2
  c1 = c1
  c2 = c2
  Handler <- Handlers
  Conv <- Conversations
  UnderDocs <- NoConversation
  Deployments <- Restarting
SYMMETRY HandlerSymmetry
INVARIANT LoadedIsComplete
