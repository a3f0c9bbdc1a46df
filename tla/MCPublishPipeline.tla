-------------------------- MODULE MCPublishPipeline --------------------------
\* PublishPipeline on a small instance.
EXTENDS PublishPipeline, TLC

\* Nothing, two encodings with one between them that is passed over, one unknown.
SomeEncodings == {<<>>, <<"gzip", "identity", "deflate">>, <<"gzip", "br">>}
OneEncoding == {<<>>, <<"gzip">>}

=============================================================================
